---------------------------- MODULE Spec2Model ----------------------------
(***************************************************************************)
(* Albion Rush train departure server: the GTFS-RT feed cache              *)
(* (fetchGTFSRT), the departure resolver (getDepartures, lineName) and the *)
(* GET /api/departures handler of src/server.js, with the earlier          *)
(* STOP_CONFIG variant of the resolver kept in src/unnamed/part_000.       *)
(*                                                                         *)
(* JavaScript values are represented as follows.                           *)
(*   - route ids and line names are sequences of UTF-16 code units, so     *)
(*     that toUpperCase, split and slice are computed as the code does;    *)
(*   - stop ids and trip ids are strings, "" standing for an absent stop   *)
(*     id; an absent trip id is "", UndefinedId or NullId;                 *)
(*   - a JS number is [kind, v]: kind "num" with the integer v, kind "nan" *)
(*     for NaN and kind "inf" for +Infinity; the time of a stop time event *)
(*     is such a number once converted, and kind "nan" stands for every    *)
(*     time that converts to NaN (undefined, a non-numeric string), kind   *)
(*     "null" for the time null, whose conversion throws;                  *)
(*   - arrays are sequences, indexed from 1 (JS index i is i + 1 here);    *)
(*   - a lookup in an object literal by a name it does not define finds    *)
(*     the properties of Object.prototype.                                 *)
(***************************************************************************)
EXTENDS Integers, Sequences, FiniteSets, TLC

VARIABLES
    now,      \* Date.now() in ms at the latest read of the clock
    ticks,    \* number of clock advances so far (bounds the run)
    cache,    \* the module-level cache object {data, timestamp, inflight}
    fetches,  \* the upstream fetches started so far, one record per call of fetch()
    reqs,     \* the HTTP requests: position of each handler and its response
    call,     \* the arguments of one direct call of getDepartures or lineName
    ret       \* what that call returned, or that it threw

vars == <<now, ticks, cache, fetches, reqs, call, ret>>

---------------------------------------------------------------------------
(* Bounds of the model *)

\* longest feed of timetable trips handed to getDepartures
MaxEntities == 6
\* longest stopTimeUpdate array of a trip in the stop-pattern feeds
MaxStops == 3
\* number of concurrent HTTP requests
MaxReqs == 3
\* number of upstream fetches in one run
MaxFetches == 3
\* number of clock advances in one run
MaxTicks == 2
MaxRouteLen == 4

---------------------------------------------------------------------------
(* JS values *)

Min(a, b) == IF a < b THEN a ELSE b

NumOf(n) == [kind |-> "num", v |-> n]
NaN == [kind |-> "nan", v |-> 0]
Infinity == [kind |-> "inf", v |-> 0]
\* dep.time === null: typeof null is 'object', and null.toNumber() throws a TypeError
Null == [kind |-> "null", v |-> 0]

\* an absent directionId (undefined); direction_id itself is an unsigned integer
NoDirection == -1

\* an absent departure/arrival StopTimeEvent, and one carrying a time
NoEvent == [present |-> FALSE, time |-> NaN]
EventAt(t) == [present |-> TRUE, time |-> t]

---------------------------------------------------------------------------
(* Configuration tables of src/server.js *)

\* MODES, STOP_CONFIG and PLATFORM_NAMES are object literals: a lookup by a name
\* they do not define falls through to Object.prototype, whose properties
\* (these twelve) are functions or, for __proto__, Object.prototype itself:
\* truthy values without stopIds and without directionId.
ObjectPrototypeNames ==
    {"constructor", "__defineGetter__", "__defineSetter__", "hasOwnProperty",
     "__lookupGetter__", "__lookupSetter__", "isPrototypeOf", "propertyIsEnumerable",
     "toString", "valueOf", "__proto__", "toLocaleString"}

\* the value such a lookup gives, written as the expression that names it
InheritedValue(name) ==
    IF name = "__proto__" THEN "Object.prototype" ELSE "Object.prototype." \o name
InheritedProperty == [directionId |-> NoDirection]

\* table[mode] as JS evaluates it, for the names that give a truthy value
hasConfig(table, mode) == mode \in DOMAIN table \/ mode \in ObjectPrototypeNames
configOf(table, mode) == IF mode \in DOMAIN table THEN table[mode] ELSE InheritedProperty

\* config.stopIds.includes(...) throws a TypeError when config has no stopIds
StopIdsThrows(config) == "stopIds" \notin DOMAIN config

MODES ==
       "albion" :> [stopIds |-> {"600365", "600366", "600368"},
                    directionId |-> 0,
                    hasRequired |-> FALSE, requiredStopIds |-> {},
                    useDestination |-> FALSE]
    @@ "roma-milton" :> [stopIds |-> {"600029"},
                    directionId |-> NoDirection,
                    hasRequired |-> TRUE, requiredStopIds |-> {"600279", "600280"},
                    useDestination |-> TRUE]

PLATFORM_NAMES ==
       "600028" :> "7" @@ "600029" :> "8" @@ "600030" :> "6" @@ "600033" :> "3"
    @@ "600034" :> "5" @@ "600035" :> "10" @@ "600036" :> "4" @@ "600038" :> "9"
    @@ "600365" :> "1" @@ "600366" :> "2" @@ "600368" :> "3"

LINE_NAMES ==
       <<"A", "I">> :> <<"A", "i", "r", "p", "o", "r", "t">>
    @@ <<"B", "D">> :> <<"G", "o", "l", "d", " ", "C", "o", "a", "s", "t">>
    @@ <<"C", "A">> :> <<"C", "a", "b", "o", "o", "l", "t", "u", "r", "e">>
    @@ <<"C", "L">> :> <<"C", "l", "e", "v", "e", "l", "a", "n", "d">>
    @@ <<"D", "B">> :> <<"D", "o", "o", "m", "b", "e", "n">>
    @@ <<"F", "G">> :> <<"F", "e", "r", "n", "y", " ", "G", "r", "o", "v", "e">>
    @@ <<"G", "C">> :> <<"G", "o", "l", "d", " ", "C", "o", "a", "s", "t">>
    @@ <<"G", "Y">> :> <<"G", "y", "m", "p", "i", "e">>
    @@ <<"I", "P">> :> <<"I", "p", "s", "w", "i", "c", "h">>
    @@ <<"N", "A">> :> <<"N", "a", "m", "b", "o", "u", "r">>
    @@ <<"R", "P">> :> <<"R", "e", "d", "c", "l", "i", "f", "f", "e">>
    @@ <<"R", "W">> :> <<"R", "o", "s", "e", "w", "o", "o", "d">>
    @@ <<"S", "H">> :> <<"S", "h", "o", "r", "n", "c", "l", "i", "f", "f", "e">>
    @@ <<"S", "M">> :> <<"S", "t", "r", "a", "d", "b", "r", "o", "k", "e">>
    @@ <<"S", "P">> :> <<"S", "p", "r", "i", "n", "g", "f", "i", "e", "l", "d">>
    @@ <<"V", "L">> :> <<"G", "o", "l", "d", " ", "C", "o", "a", "s", "t">>

---------------------------------------------------------------------------
(* lineName *)

\* A string is the sequence of its UTF-16 code units, as String.prototype.length
\* and slice count them. In a route id a code unit up to U+00FF is written as
\* the character itself, a code unit above it by its number ("U+0131" is one
\* code unit), and a character outside the Basic Multilingual Plane as its two
\* surrogates.

\* the characters of the Basic Multilingual Plane that
\* String.prototype.toUpperCase changes, each with the code units it writes
\* for it (up to three: the upper case of U+00DF is SS)
UpperPairs ==
    { <<"a", <<"A">>>>, <<"b", <<"B">>>>, <<"c", <<"C">>>>, <<"d", <<"D">>>>, <<"e", <<"E">>>>,
      <<"f", <<"F">>>>, <<"g", <<"G">>>>, <<"h", <<"H">>>>, <<"i", <<"I">>>>, <<"j", <<"J">>>>,
      <<"k", <<"K">>>>, <<"l", <<"L">>>>, <<"m", <<"M">>>>, <<"n", <<"N">>>>, <<"o", <<"O">>>>,
      <<"p", <<"P">>>>, <<"q", <<"Q">>>>, <<"r", <<"R">>>>, <<"s", <<"S">>>>, <<"t", <<"T">>>>,
      <<"u", <<"U">>>>, <<"v", <<"V">>>>, <<"w", <<"W">>>>, <<"x", <<"X">>>>, <<"y", <<"Y">>>>,
      <<"z", <<"Z">>>>, <<"µ", <<"U+039C">>>>, <<"ß", <<"S", "S">>>>, <<"à", <<"À">>>>, <<"á",
      <<"Á">>>>, <<"â", <<"Â">>>>, <<"ã", <<"Ã">>>>, <<"ä", <<"Ä">>>>, <<"å", <<"Å">>>>, <<"æ",
      <<"Æ">>>>, <<"ç", <<"Ç">>>>, <<"è", <<"È">>>>, <<"é", <<"É">>>>, <<"ê", <<"Ê">>>>, <<"ë",
      <<"Ë">>>>, <<"ì", <<"Ì">>>>, <<"í", <<"Í">>>>, <<"î", <<"Î">>>>, <<"ï", <<"Ï">>>>, <<"ð",
      <<"Ð">>>>, <<"ñ", <<"Ñ">>>>, <<"ò", <<"Ò">>>>, <<"ó", <<"Ó">>>>, <<"ô", <<"Ô">>>>, <<"õ",
      <<"Õ">>>>, <<"ö", <<"Ö">>>>, <<"ø", <<"Ø">>>>, <<"ù", <<"Ù">>>>, <<"ú", <<"Ú">>>>, <<"û",
      <<"Û">>>>, <<"ü", <<"Ü">>>>, <<"ý", <<"Ý">>>>, <<"þ", <<"Þ">>>>, <<"ÿ", <<"U+0178">>>>,
      <<"U+0101", <<"U+0100">>>>, <<"U+0103", <<"U+0102">>>>, <<"U+0105", <<"U+0104">>>>,
      <<"U+0107", <<"U+0106">>>>, <<"U+0109", <<"U+0108">>>>, <<"U+010B", <<"U+010A">>>>,
      <<"U+010D", <<"U+010C">>>>, <<"U+010F", <<"U+010E">>>>, <<"U+0111", <<"U+0110">>>>,
      <<"U+0113", <<"U+0112">>>>, <<"U+0115", <<"U+0114">>>>, <<"U+0117", <<"U+0116">>>>,
      <<"U+0119", <<"U+0118">>>>, <<"U+011B", <<"U+011A">>>>, <<"U+011D", <<"U+011C">>>>,
      <<"U+011F", <<"U+011E">>>>, <<"U+0121", <<"U+0120">>>>, <<"U+0123", <<"U+0122">>>>,
      <<"U+0125", <<"U+0124">>>>, <<"U+0127", <<"U+0126">>>>, <<"U+0129", <<"U+0128">>>>,
      <<"U+012B", <<"U+012A">>>>, <<"U+012D", <<"U+012C">>>>, <<"U+012F", <<"U+012E">>>>,
      <<"U+0131", <<"I">>>>, <<"U+0133", <<"U+0132">>>>, <<"U+0135", <<"U+0134">>>>, <<"U+0137",
      <<"U+0136">>>>, <<"U+013A", <<"U+0139">>>>, <<"U+013C", <<"U+013B">>>>, <<"U+013E",
      <<"U+013D">>>>, <<"U+0140", <<"U+013F">>>>, <<"U+0142", <<"U+0141">>>>, <<"U+0144",
      <<"U+0143">>>>, <<"U+0146", <<"U+0145">>>>, <<"U+0148", <<"U+0147">>>>, <<"U+0149",
      <<"U+02BC", "N">>>>, <<"U+014B", <<"U+014A">>>>, <<"U+014D", <<"U+014C">>>>, <<"U+014F",
      <<"U+014E">>>>, <<"U+0151", <<"U+0150">>>>, <<"U+0153", <<"U+0152">>>>, <<"U+0155",
      <<"U+0154">>>>, <<"U+0157", <<"U+0156">>>>, <<"U+0159", <<"U+0158">>>>, <<"U+015B",
      <<"U+015A">>>>, <<"U+015D", <<"U+015C">>>>, <<"U+015F", <<"U+015E">>>>, <<"U+0161",
      <<"U+0160">>>>, <<"U+0163", <<"U+0162">>>>, <<"U+0165", <<"U+0164">>>>, <<"U+0167",
      <<"U+0166">>>>, <<"U+0169", <<"U+0168">>>>, <<"U+016B", <<"U+016A">>>>, <<"U+016D",
      <<"U+016C">>>>, <<"U+016F", <<"U+016E">>>>, <<"U+0171", <<"U+0170">>>>, <<"U+0173",
      <<"U+0172">>>>, <<"U+0175", <<"U+0174">>>>, <<"U+0177", <<"U+0176">>>>, <<"U+017A",
      <<"U+0179">>>>, <<"U+017C", <<"U+017B">>>>, <<"U+017E", <<"U+017D">>>>, <<"U+017F",
      <<"S">>>>, <<"U+0180", <<"U+0243">>>>, <<"U+0183", <<"U+0182">>>>, <<"U+0185",
      <<"U+0184">>>>, <<"U+0188", <<"U+0187">>>>, <<"U+018C", <<"U+018B">>>>, <<"U+0192",
      <<"U+0191">>>>, <<"U+0195", <<"U+01F6">>>>, <<"U+0199", <<"U+0198">>>>, <<"U+019A",
      <<"U+023D">>>>, <<"U+019B", <<"U+A7DC">>>>, <<"U+019E", <<"U+0220">>>>, <<"U+01A1",
      <<"U+01A0">>>>, <<"U+01A3", <<"U+01A2">>>>, <<"U+01A5", <<"U+01A4">>>>, <<"U+01A8",
      <<"U+01A7">>>>, <<"U+01AD", <<"U+01AC">>>>, <<"U+01B0", <<"U+01AF">>>>, <<"U+01B4",
      <<"U+01B3">>>>, <<"U+01B6", <<"U+01B5">>>>, <<"U+01B9", <<"U+01B8">>>>, <<"U+01BD",
      <<"U+01BC">>>>, <<"U+01BF", <<"U+01F7">>>>, <<"U+01C5", <<"U+01C4">>>>, <<"U+01C6",
      <<"U+01C4">>>>, <<"U+01C8", <<"U+01C7">>>>, <<"U+01C9", <<"U+01C7">>>>, <<"U+01CB",
      <<"U+01CA">>>>, <<"U+01CC", <<"U+01CA">>>>, <<"U+01CE", <<"U+01CD">>>>, <<"U+01D0",
      <<"U+01CF">>>>, <<"U+01D2", <<"U+01D1">>>>, <<"U+01D4", <<"U+01D3">>>>, <<"U+01D6",
      <<"U+01D5">>>>, <<"U+01D8", <<"U+01D7">>>>, <<"U+01DA", <<"U+01D9">>>>, <<"U+01DC",
      <<"U+01DB">>>>, <<"U+01DD", <<"U+018E">>>>, <<"U+01DF", <<"U+01DE">>>>, <<"U+01E1",
      <<"U+01E0">>>>, <<"U+01E3", <<"U+01E2">>>>, <<"U+01E5", <<"U+01E4">>>>, <<"U+01E7",
      <<"U+01E6">>>>, <<"U+01E9", <<"U+01E8">>>>, <<"U+01EB", <<"U+01EA">>>>, <<"U+01ED",
      <<"U+01EC">>>>, <<"U+01EF", <<"U+01EE">>>>, <<"U+01F0", <<"J", "U+030C">>>>, <<"U+01F2",
      <<"U+01F1">>>>, <<"U+01F3", <<"U+01F1">>>>, <<"U+01F5", <<"U+01F4">>>>, <<"U+01F9",
      <<"U+01F8">>>>, <<"U+01FB", <<"U+01FA">>>>, <<"U+01FD", <<"U+01FC">>>>, <<"U+01FF",
      <<"U+01FE">>>>, <<"U+0201", <<"U+0200">>>>, <<"U+0203", <<"U+0202">>>>, <<"U+0205",
      <<"U+0204">>>>, <<"U+0207", <<"U+0206">>>>, <<"U+0209", <<"U+0208">>>>, <<"U+020B",
      <<"U+020A">>>>, <<"U+020D", <<"U+020C">>>>, <<"U+020F", <<"U+020E">>>>, <<"U+0211",
      <<"U+0210">>>>, <<"U+0213", <<"U+0212">>>>, <<"U+0215", <<"U+0214">>>>, <<"U+0217",
      <<"U+0216">>>>, <<"U+0219", <<"U+0218">>>>, <<"U+021B", <<"U+021A">>>>, <<"U+021D",
      <<"U+021C">>>>, <<"U+021F", <<"U+021E">>>>, <<"U+0223", <<"U+0222">>>>, <<"U+0225",
      <<"U+0224">>>>, <<"U+0227", <<"U+0226">>>>, <<"U+0229", <<"U+0228">>>>, <<"U+022B",
      <<"U+022A">>>>, <<"U+022D", <<"U+022C">>>>, <<"U+022F", <<"U+022E">>>>, <<"U+0231",
      <<"U+0230">>>>, <<"U+0233", <<"U+0232">>>>, <<"U+023C", <<"U+023B">>>>, <<"U+023F",
      <<"U+2C7E">>>>, <<"U+0240", <<"U+2C7F">>>>, <<"U+0242", <<"U+0241">>>>, <<"U+0247",
      <<"U+0246">>>>, <<"U+0249", <<"U+0248">>>>, <<"U+024B", <<"U+024A">>>>, <<"U+024D",
      <<"U+024C">>>>, <<"U+024F", <<"U+024E">>>>, <<"U+0250", <<"U+2C6F">>>>, <<"U+0251",
      <<"U+2C6D">>>>, <<"U+0252", <<"U+2C70">>>>, <<"U+0253", <<"U+0181">>>>, <<"U+0254",
      <<"U+0186">>>>, <<"U+0256", <<"U+0189">>>>, <<"U+0257", <<"U+018A">>>>, <<"U+0259",
      <<"U+018F">>>>, <<"U+025B", <<"U+0190">>>>, <<"U+025C", <<"U+A7AB">>>>, <<"U+0260",
      <<"U+0193">>>>, <<"U+0261", <<"U+A7AC">>>>, <<"U+0263", <<"U+0194">>>>, <<"U+0264",
      <<"U+A7CB">>>>, <<"U+0265", <<"U+A78D">>>>, <<"U+0266", <<"U+A7AA">>>>, <<"U+0268",
      <<"U+0197">>>>, <<"U+0269", <<"U+0196">>>>, <<"U+026A", <<"U+A7AE">>>>, <<"U+026B",
      <<"U+2C62">>>>, <<"U+026C", <<"U+A7AD">>>>, <<"U+026F", <<"U+019C">>>>, <<"U+0271",
      <<"U+2C6E">>>>, <<"U+0272", <<"U+019D">>>>, <<"U+0275", <<"U+019F">>>>, <<"U+027D",
      <<"U+2C64">>>>, <<"U+0280", <<"U+01A6">>>>, <<"U+0282", <<"U+A7C5">>>>, <<"U+0283",
      <<"U+01A9">>>>, <<"U+0287", <<"U+A7B1">>>>, <<"U+0288", <<"U+01AE">>>>, <<"U+0289",
      <<"U+0244">>>>, <<"U+028A", <<"U+01B1">>>>, <<"U+028B", <<"U+01B2">>>>, <<"U+028C",
      <<"U+0245">>>>, <<"U+0292", <<"U+01B7">>>>, <<"U+029D", <<"U+A7B2">>>>, <<"U+029E",
      <<"U+A7B0">>>>, <<"U+0345", <<"U+0399">>>>, <<"U+0371", <<"U+0370">>>>, <<"U+0373",
      <<"U+0372">>>>, <<"U+0377", <<"U+0376">>>>, <<"U+037B", <<"U+03FD">>>>, <<"U+037C",
      <<"U+03FE">>>>, <<"U+037D", <<"U+03FF">>>>, <<"U+0390", <<"U+0399", "U+0308", "U+0301">>>>,
      <<"U+03AC", <<"U+0386">>>>, <<"U+03AD", <<"U+0388">>>>, <<"U+03AE", <<"U+0389">>>>,
      <<"U+03AF", <<"U+038A">>>>, <<"U+03B0", <<"U+03A5", "U+0308", "U+0301">>>>, <<"U+03B1",
      <<"U+0391">>>>, <<"U+03B2", <<"U+0392">>>>, <<"U+03B3", <<"U+0393">>>>, <<"U+03B4",
      <<"U+0394">>>>, <<"U+03B5", <<"U+0395">>>>, <<"U+03B6", <<"U+0396">>>>, <<"U+03B7",
      <<"U+0397">>>>, <<"U+03B8", <<"U+0398">>>>, <<"U+03B9", <<"U+0399">>>>, <<"U+03BA",
      <<"U+039A">>>>, <<"U+03BB", <<"U+039B">>>>, <<"U+03BC", <<"U+039C">>>>, <<"U+03BD",
      <<"U+039D">>>>, <<"U+03BE", <<"U+039E">>>>, <<"U+03BF", <<"U+039F">>>>, <<"U+03C0",
      <<"U+03A0">>>>, <<"U+03C1", <<"U+03A1">>>>, <<"U+03C2", <<"U+03A3">>>>, <<"U+03C3",
      <<"U+03A3">>>>, <<"U+03C4", <<"U+03A4">>>>, <<"U+03C5", <<"U+03A5">>>>, <<"U+03C6",
      <<"U+03A6">>>>, <<"U+03C7", <<"U+03A7">>>>, <<"U+03C8", <<"U+03A8">>>>, <<"U+03C9",
      <<"U+03A9">>>>, <<"U+03CA", <<"U+03AA">>>>, <<"U+03CB", <<"U+03AB">>>>, <<"U+03CC",
      <<"U+038C">>>>, <<"U+03CD", <<"U+038E">>>>, <<"U+03CE", <<"U+038F">>>>, <<"U+03D0",
      <<"U+0392">>>>, <<"U+03D1", <<"U+0398">>>>, <<"U+03D5", <<"U+03A6">>>>, <<"U+03D6",
      <<"U+03A0">>>>, <<"U+03D7", <<"U+03CF">>>>, <<"U+03D9", <<"U+03D8">>>>, <<"U+03DB",
      <<"U+03DA">>>>, <<"U+03DD", <<"U+03DC">>>>, <<"U+03DF", <<"U+03DE">>>>, <<"U+03E1",
      <<"U+03E0">>>>, <<"U+03E3", <<"U+03E2">>>>, <<"U+03E5", <<"U+03E4">>>>, <<"U+03E7",
      <<"U+03E6">>>>, <<"U+03E9", <<"U+03E8">>>>, <<"U+03EB", <<"U+03EA">>>>, <<"U+03ED",
      <<"U+03EC">>>>, <<"U+03EF", <<"U+03EE">>>>, <<"U+03F0", <<"U+039A">>>>, <<"U+03F1",
      <<"U+03A1">>>>, <<"U+03F2", <<"U+03F9">>>>, <<"U+03F3", <<"U+037F">>>>, <<"U+03F5",
      <<"U+0395">>>>, <<"U+03F8", <<"U+03F7">>>>, <<"U+03FB", <<"U+03FA">>>>, <<"U+0430",
      <<"U+0410">>>>, <<"U+0431", <<"U+0411">>>>, <<"U+0432", <<"U+0412">>>>, <<"U+0433",
      <<"U+0413">>>>, <<"U+0434", <<"U+0414">>>>, <<"U+0435", <<"U+0415">>>>, <<"U+0436",
      <<"U+0416">>>>, <<"U+0437", <<"U+0417">>>>, <<"U+0438", <<"U+0418">>>>, <<"U+0439",
      <<"U+0419">>>>, <<"U+043A", <<"U+041A">>>>, <<"U+043B", <<"U+041B">>>>, <<"U+043C",
      <<"U+041C">>>>, <<"U+043D", <<"U+041D">>>>, <<"U+043E", <<"U+041E">>>>, <<"U+043F",
      <<"U+041F">>>>, <<"U+0440", <<"U+0420">>>>, <<"U+0441", <<"U+0421">>>>, <<"U+0442",
      <<"U+0422">>>>, <<"U+0443", <<"U+0423">>>>, <<"U+0444", <<"U+0424">>>>, <<"U+0445",
      <<"U+0425">>>>, <<"U+0446", <<"U+0426">>>>, <<"U+0447", <<"U+0427">>>>, <<"U+0448",
      <<"U+0428">>>>, <<"U+0449", <<"U+0429">>>>, <<"U+044A", <<"U+042A">>>>, <<"U+044B",
      <<"U+042B">>>>, <<"U+044C", <<"U+042C">>>>, <<"U+044D", <<"U+042D">>>>, <<"U+044E",
      <<"U+042E">>>>, <<"U+044F", <<"U+042F">>>>, <<"U+0450", <<"U+0400">>>>, <<"U+0451",
      <<"U+0401">>>>, <<"U+0452", <<"U+0402">>>>, <<"U+0453", <<"U+0403">>>>, <<"U+0454",
      <<"U+0404">>>>, <<"U+0455", <<"U+0405">>>>, <<"U+0456", <<"U+0406">>>>, <<"U+0457",
      <<"U+0407">>>>, <<"U+0458", <<"U+0408">>>>, <<"U+0459", <<"U+0409">>>>, <<"U+045A",
      <<"U+040A">>>>, <<"U+045B", <<"U+040B">>>>, <<"U+045C", <<"U+040C">>>>, <<"U+045D",
      <<"U+040D">>>>, <<"U+045E", <<"U+040E">>>>, <<"U+045F", <<"U+040F">>>>, <<"U+0461",
      <<"U+0460">>>>, <<"U+0463", <<"U+0462">>>>, <<"U+0465", <<"U+0464">>>>, <<"U+0467",
      <<"U+0466">>>>, <<"U+0469", <<"U+0468">>>>, <<"U+046B", <<"U+046A">>>>, <<"U+046D",
      <<"U+046C">>>>, <<"U+046F", <<"U+046E">>>>, <<"U+0471", <<"U+0470">>>>, <<"U+0473",
      <<"U+0472">>>>, <<"U+0475", <<"U+0474">>>>, <<"U+0477", <<"U+0476">>>>, <<"U+0479",
      <<"U+0478">>>>, <<"U+047B", <<"U+047A">>>>, <<"U+047D", <<"U+047C">>>>, <<"U+047F",
      <<"U+047E">>>>, <<"U+0481", <<"U+0480">>>>, <<"U+048B", <<"U+048A">>>>, <<"U+048D",
      <<"U+048C">>>>, <<"U+048F", <<"U+048E">>>>, <<"U+0491", <<"U+0490">>>>, <<"U+0493",
      <<"U+0492">>>>, <<"U+0495", <<"U+0494">>>>, <<"U+0497", <<"U+0496">>>>, <<"U+0499",
      <<"U+0498">>>>, <<"U+049B", <<"U+049A">>>>, <<"U+049D", <<"U+049C">>>>, <<"U+049F",
      <<"U+049E">>>>, <<"U+04A1", <<"U+04A0">>>>, <<"U+04A3", <<"U+04A2">>>>, <<"U+04A5",
      <<"U+04A4">>>>, <<"U+04A7", <<"U+04A6">>>>, <<"U+04A9", <<"U+04A8">>>>, <<"U+04AB",
      <<"U+04AA">>>>, <<"U+04AD", <<"U+04AC">>>>, <<"U+04AF", <<"U+04AE">>>>, <<"U+04B1",
      <<"U+04B0">>>>, <<"U+04B3", <<"U+04B2">>>>, <<"U+04B5", <<"U+04B4">>>>, <<"U+04B7",
      <<"U+04B6">>>>, <<"U+04B9", <<"U+04B8">>>>, <<"U+04BB", <<"U+04BA">>>>, <<"U+04BD",
      <<"U+04BC">>>>, <<"U+04BF", <<"U+04BE">>>>, <<"U+04C2", <<"U+04C1">>>>, <<"U+04C4",
      <<"U+04C3">>>>, <<"U+04C6", <<"U+04C5">>>>, <<"U+04C8", <<"U+04C7">>>>, <<"U+04CA",
      <<"U+04C9">>>>, <<"U+04CC", <<"U+04CB">>>>, <<"U+04CE", <<"U+04CD">>>>, <<"U+04CF",
      <<"U+04C0">>>>, <<"U+04D1", <<"U+04D0">>>>, <<"U+04D3", <<"U+04D2">>>>, <<"U+04D5",
      <<"U+04D4">>>>, <<"U+04D7", <<"U+04D6">>>>, <<"U+04D9", <<"U+04D8">>>>, <<"U+04DB",
      <<"U+04DA">>>>, <<"U+04DD", <<"U+04DC">>>>, <<"U+04DF", <<"U+04DE">>>>, <<"U+04E1",
      <<"U+04E0">>>>, <<"U+04E3", <<"U+04E2">>>>, <<"U+04E5", <<"U+04E4">>>>, <<"U+04E7",
      <<"U+04E6">>>>, <<"U+04E9", <<"U+04E8">>>>, <<"U+04EB", <<"U+04EA">>>>, <<"U+04ED",
      <<"U+04EC">>>>, <<"U+04EF", <<"U+04EE">>>>, <<"U+04F1", <<"U+04F0">>>>, <<"U+04F3",
      <<"U+04F2">>>>, <<"U+04F5", <<"U+04F4">>>>, <<"U+04F7", <<"U+04F6">>>>, <<"U+04F9",
      <<"U+04F8">>>>, <<"U+04FB", <<"U+04FA">>>>, <<"U+04FD", <<"U+04FC">>>>, <<"U+04FF",
      <<"U+04FE">>>>, <<"U+0501", <<"U+0500">>>>, <<"U+0503", <<"U+0502">>>>, <<"U+0505",
      <<"U+0504">>>>, <<"U+0507", <<"U+0506">>>>, <<"U+0509", <<"U+0508">>>>, <<"U+050B",
      <<"U+050A">>>>, <<"U+050D", <<"U+050C">>>>, <<"U+050F", <<"U+050E">>>>, <<"U+0511",
      <<"U+0510">>>>, <<"U+0513", <<"U+0512">>>>, <<"U+0515", <<"U+0514">>>>, <<"U+0517",
      <<"U+0516">>>>, <<"U+0519", <<"U+0518">>>>, <<"U+051B", <<"U+051A">>>>, <<"U+051D",
      <<"U+051C">>>>, <<"U+051F", <<"U+051E">>>>, <<"U+0521", <<"U+0520">>>>, <<"U+0523",
      <<"U+0522">>>>, <<"U+0525", <<"U+0524">>>>, <<"U+0527", <<"U+0526">>>>, <<"U+0529",
      <<"U+0528">>>>, <<"U+052B", <<"U+052A">>>>, <<"U+052D", <<"U+052C">>>>, <<"U+052F",
      <<"U+052E">>>>, <<"U+0561", <<"U+0531">>>>, <<"U+0562", <<"U+0532">>>>, <<"U+0563",
      <<"U+0533">>>>, <<"U+0564", <<"U+0534">>>>, <<"U+0565", <<"U+0535">>>>, <<"U+0566",
      <<"U+0536">>>>, <<"U+0567", <<"U+0537">>>>, <<"U+0568", <<"U+0538">>>>, <<"U+0569",
      <<"U+0539">>>>, <<"U+056A", <<"U+053A">>>>, <<"U+056B", <<"U+053B">>>>, <<"U+056C",
      <<"U+053C">>>>, <<"U+056D", <<"U+053D">>>>, <<"U+056E", <<"U+053E">>>>, <<"U+056F",
      <<"U+053F">>>>, <<"U+0570", <<"U+0540">>>>, <<"U+0571", <<"U+0541">>>>, <<"U+0572",
      <<"U+0542">>>>, <<"U+0573", <<"U+0543">>>>, <<"U+0574", <<"U+0544">>>>, <<"U+0575",
      <<"U+0545">>>>, <<"U+0576", <<"U+0546">>>>, <<"U+0577", <<"U+0547">>>>, <<"U+0578",
      <<"U+0548">>>>, <<"U+0579", <<"U+0549">>>>, <<"U+057A", <<"U+054A">>>>, <<"U+057B",
      <<"U+054B">>>>, <<"U+057C", <<"U+054C">>>>, <<"U+057D", <<"U+054D">>>>, <<"U+057E",
      <<"U+054E">>>>, <<"U+057F", <<"U+054F">>>>, <<"U+0580", <<"U+0550">>>>, <<"U+0581",
      <<"U+0551">>>>, <<"U+0582", <<"U+0552">>>>, <<"U+0583", <<"U+0553">>>>, <<"U+0584",
      <<"U+0554">>>>, <<"U+0585", <<"U+0555">>>>, <<"U+0586", <<"U+0556">>>>, <<"U+0587",
      <<"U+0535", "U+0552">>>>, <<"U+10D0", <<"U+1C90">>>>, <<"U+10D1", <<"U+1C91">>>>,
      <<"U+10D2", <<"U+1C92">>>>, <<"U+10D3", <<"U+1C93">>>>, <<"U+10D4", <<"U+1C94">>>>,
      <<"U+10D5", <<"U+1C95">>>>, <<"U+10D6", <<"U+1C96">>>>, <<"U+10D7", <<"U+1C97">>>>,
      <<"U+10D8", <<"U+1C98">>>>, <<"U+10D9", <<"U+1C99">>>>, <<"U+10DA", <<"U+1C9A">>>>,
      <<"U+10DB", <<"U+1C9B">>>>, <<"U+10DC", <<"U+1C9C">>>>, <<"U+10DD", <<"U+1C9D">>>>,
      <<"U+10DE", <<"U+1C9E">>>>, <<"U+10DF", <<"U+1C9F">>>>, <<"U+10E0", <<"U+1CA0">>>>,
      <<"U+10E1", <<"U+1CA1">>>>, <<"U+10E2", <<"U+1CA2">>>>, <<"U+10E3", <<"U+1CA3">>>>,
      <<"U+10E4", <<"U+1CA4">>>>, <<"U+10E5", <<"U+1CA5">>>>, <<"U+10E6", <<"U+1CA6">>>>,
      <<"U+10E7", <<"U+1CA7">>>>, <<"U+10E8", <<"U+1CA8">>>>, <<"U+10E9", <<"U+1CA9">>>>,
      <<"U+10EA", <<"U+1CAA">>>>, <<"U+10EB", <<"U+1CAB">>>>, <<"U+10EC", <<"U+1CAC">>>>,
      <<"U+10ED", <<"U+1CAD">>>>, <<"U+10EE", <<"U+1CAE">>>>, <<"U+10EF", <<"U+1CAF">>>>,
      <<"U+10F0", <<"U+1CB0">>>>, <<"U+10F1", <<"U+1CB1">>>>, <<"U+10F2", <<"U+1CB2">>>>,
      <<"U+10F3", <<"U+1CB3">>>>, <<"U+10F4", <<"U+1CB4">>>>, <<"U+10F5", <<"U+1CB5">>>>,
      <<"U+10F6", <<"U+1CB6">>>>, <<"U+10F7", <<"U+1CB7">>>>, <<"U+10F8", <<"U+1CB8">>>>,
      <<"U+10F9", <<"U+1CB9">>>>, <<"U+10FA", <<"U+1CBA">>>>, <<"U+10FD", <<"U+1CBD">>>>,
      <<"U+10FE", <<"U+1CBE">>>>, <<"U+10FF", <<"U+1CBF">>>>, <<"U+13F8", <<"U+13F0">>>>,
      <<"U+13F9", <<"U+13F1">>>>, <<"U+13FA", <<"U+13F2">>>>, <<"U+13FB", <<"U+13F3">>>>,
      <<"U+13FC", <<"U+13F4">>>>, <<"U+13FD", <<"U+13F5">>>>, <<"U+1C80", <<"U+0412">>>>,
      <<"U+1C81", <<"U+0414">>>>, <<"U+1C82", <<"U+041E">>>>, <<"U+1C83", <<"U+0421">>>>,
      <<"U+1C84", <<"U+0422">>>>, <<"U+1C85", <<"U+0422">>>>, <<"U+1C86", <<"U+042A">>>>,
      <<"U+1C87", <<"U+0462">>>>, <<"U+1C88", <<"U+A64A">>>>, <<"U+1C8A", <<"U+1C89">>>>,
      <<"U+1D79", <<"U+A77D">>>>, <<"U+1D7D", <<"U+2C63">>>>, <<"U+1D8E", <<"U+A7C6">>>>,
      <<"U+1E01", <<"U+1E00">>>>, <<"U+1E03", <<"U+1E02">>>>, <<"U+1E05", <<"U+1E04">>>>,
      <<"U+1E07", <<"U+1E06">>>>, <<"U+1E09", <<"U+1E08">>>>, <<"U+1E0B", <<"U+1E0A">>>>,
      <<"U+1E0D", <<"U+1E0C">>>>, <<"U+1E0F", <<"U+1E0E">>>>, <<"U+1E11", <<"U+1E10">>>>,
      <<"U+1E13", <<"U+1E12">>>>, <<"U+1E15", <<"U+1E14">>>>, <<"U+1E17", <<"U+1E16">>>>,
      <<"U+1E19", <<"U+1E18">>>>, <<"U+1E1B", <<"U+1E1A">>>>, <<"U+1E1D", <<"U+1E1C">>>>,
      <<"U+1E1F", <<"U+1E1E">>>>, <<"U+1E21", <<"U+1E20">>>>, <<"U+1E23", <<"U+1E22">>>>,
      <<"U+1E25", <<"U+1E24">>>>, <<"U+1E27", <<"U+1E26">>>>, <<"U+1E29", <<"U+1E28">>>>,
      <<"U+1E2B", <<"U+1E2A">>>>, <<"U+1E2D", <<"U+1E2C">>>>, <<"U+1E2F", <<"U+1E2E">>>>,
      <<"U+1E31", <<"U+1E30">>>>, <<"U+1E33", <<"U+1E32">>>>, <<"U+1E35", <<"U+1E34">>>>,
      <<"U+1E37", <<"U+1E36">>>>, <<"U+1E39", <<"U+1E38">>>>, <<"U+1E3B", <<"U+1E3A">>>>,
      <<"U+1E3D", <<"U+1E3C">>>>, <<"U+1E3F", <<"U+1E3E">>>>, <<"U+1E41", <<"U+1E40">>>>,
      <<"U+1E43", <<"U+1E42">>>>, <<"U+1E45", <<"U+1E44">>>>, <<"U+1E47", <<"U+1E46">>>>,
      <<"U+1E49", <<"U+1E48">>>>, <<"U+1E4B", <<"U+1E4A">>>>, <<"U+1E4D", <<"U+1E4C">>>>,
      <<"U+1E4F", <<"U+1E4E">>>>, <<"U+1E51", <<"U+1E50">>>>, <<"U+1E53", <<"U+1E52">>>>,
      <<"U+1E55", <<"U+1E54">>>>, <<"U+1E57", <<"U+1E56">>>>, <<"U+1E59", <<"U+1E58">>>>,
      <<"U+1E5B", <<"U+1E5A">>>>, <<"U+1E5D", <<"U+1E5C">>>>, <<"U+1E5F", <<"U+1E5E">>>>,
      <<"U+1E61", <<"U+1E60">>>>, <<"U+1E63", <<"U+1E62">>>>, <<"U+1E65", <<"U+1E64">>>>,
      <<"U+1E67", <<"U+1E66">>>>, <<"U+1E69", <<"U+1E68">>>>, <<"U+1E6B", <<"U+1E6A">>>>,
      <<"U+1E6D", <<"U+1E6C">>>>, <<"U+1E6F", <<"U+1E6E">>>>, <<"U+1E71", <<"U+1E70">>>>,
      <<"U+1E73", <<"U+1E72">>>>, <<"U+1E75", <<"U+1E74">>>>, <<"U+1E77", <<"U+1E76">>>>,
      <<"U+1E79", <<"U+1E78">>>>, <<"U+1E7B", <<"U+1E7A">>>>, <<"U+1E7D", <<"U+1E7C">>>>,
      <<"U+1E7F", <<"U+1E7E">>>>, <<"U+1E81", <<"U+1E80">>>>, <<"U+1E83", <<"U+1E82">>>>,
      <<"U+1E85", <<"U+1E84">>>>, <<"U+1E87", <<"U+1E86">>>>, <<"U+1E89", <<"U+1E88">>>>,
      <<"U+1E8B", <<"U+1E8A">>>>, <<"U+1E8D", <<"U+1E8C">>>>, <<"U+1E8F", <<"U+1E8E">>>>,
      <<"U+1E91", <<"U+1E90">>>>, <<"U+1E93", <<"U+1E92">>>>, <<"U+1E95", <<"U+1E94">>>>,
      <<"U+1E96", <<"H", "U+0331">>>>, <<"U+1E97", <<"T", "U+0308">>>>, <<"U+1E98", <<"W",
      "U+030A">>>>, <<"U+1E99", <<"Y", "U+030A">>>>, <<"U+1E9A", <<"A", "U+02BE">>>>, <<"U+1E9B",
      <<"U+1E60">>>>, <<"U+1EA1", <<"U+1EA0">>>>, <<"U+1EA3", <<"U+1EA2">>>>, <<"U+1EA5",
      <<"U+1EA4">>>>, <<"U+1EA7", <<"U+1EA6">>>>, <<"U+1EA9", <<"U+1EA8">>>>, <<"U+1EAB",
      <<"U+1EAA">>>>, <<"U+1EAD", <<"U+1EAC">>>>, <<"U+1EAF", <<"U+1EAE">>>>, <<"U+1EB1",
      <<"U+1EB0">>>>, <<"U+1EB3", <<"U+1EB2">>>>, <<"U+1EB5", <<"U+1EB4">>>>, <<"U+1EB7",
      <<"U+1EB6">>>>, <<"U+1EB9", <<"U+1EB8">>>>, <<"U+1EBB", <<"U+1EBA">>>>, <<"U+1EBD",
      <<"U+1EBC">>>>, <<"U+1EBF", <<"U+1EBE">>>>, <<"U+1EC1", <<"U+1EC0">>>>, <<"U+1EC3",
      <<"U+1EC2">>>>, <<"U+1EC5", <<"U+1EC4">>>>, <<"U+1EC7", <<"U+1EC6">>>>, <<"U+1EC9",
      <<"U+1EC8">>>>, <<"U+1ECB", <<"U+1ECA">>>>, <<"U+1ECD", <<"U+1ECC">>>>, <<"U+1ECF",
      <<"U+1ECE">>>>, <<"U+1ED1", <<"U+1ED0">>>>, <<"U+1ED3", <<"U+1ED2">>>>, <<"U+1ED5",
      <<"U+1ED4">>>>, <<"U+1ED7", <<"U+1ED6">>>>, <<"U+1ED9", <<"U+1ED8">>>>, <<"U+1EDB",
      <<"U+1EDA">>>>, <<"U+1EDD", <<"U+1EDC">>>>, <<"U+1EDF", <<"U+1EDE">>>>, <<"U+1EE1",
      <<"U+1EE0">>>>, <<"U+1EE3", <<"U+1EE2">>>>, <<"U+1EE5", <<"U+1EE4">>>>, <<"U+1EE7",
      <<"U+1EE6">>>>, <<"U+1EE9", <<"U+1EE8">>>>, <<"U+1EEB", <<"U+1EEA">>>>, <<"U+1EED",
      <<"U+1EEC">>>>, <<"U+1EEF", <<"U+1EEE">>>>, <<"U+1EF1", <<"U+1EF0">>>>, <<"U+1EF3",
      <<"U+1EF2">>>>, <<"U+1EF5", <<"U+1EF4">>>>, <<"U+1EF7", <<"U+1EF6">>>>, <<"U+1EF9",
      <<"U+1EF8">>>>, <<"U+1EFB", <<"U+1EFA">>>>, <<"U+1EFD", <<"U+1EFC">>>>, <<"U+1EFF",
      <<"U+1EFE">>>>, <<"U+1F00", <<"U+1F08">>>>, <<"U+1F01", <<"U+1F09">>>>, <<"U+1F02",
      <<"U+1F0A">>>>, <<"U+1F03", <<"U+1F0B">>>>, <<"U+1F04", <<"U+1F0C">>>>, <<"U+1F05",
      <<"U+1F0D">>>>, <<"U+1F06", <<"U+1F0E">>>>, <<"U+1F07", <<"U+1F0F">>>>, <<"U+1F10",
      <<"U+1F18">>>>, <<"U+1F11", <<"U+1F19">>>>, <<"U+1F12", <<"U+1F1A">>>>, <<"U+1F13",
      <<"U+1F1B">>>>, <<"U+1F14", <<"U+1F1C">>>>, <<"U+1F15", <<"U+1F1D">>>>, <<"U+1F20",
      <<"U+1F28">>>>, <<"U+1F21", <<"U+1F29">>>>, <<"U+1F22", <<"U+1F2A">>>>, <<"U+1F23",
      <<"U+1F2B">>>>, <<"U+1F24", <<"U+1F2C">>>>, <<"U+1F25", <<"U+1F2D">>>>, <<"U+1F26",
      <<"U+1F2E">>>>, <<"U+1F27", <<"U+1F2F">>>>, <<"U+1F30", <<"U+1F38">>>>, <<"U+1F31",
      <<"U+1F39">>>>, <<"U+1F32", <<"U+1F3A">>>>, <<"U+1F33", <<"U+1F3B">>>>, <<"U+1F34",
      <<"U+1F3C">>>>, <<"U+1F35", <<"U+1F3D">>>>, <<"U+1F36", <<"U+1F3E">>>>, <<"U+1F37",
      <<"U+1F3F">>>>, <<"U+1F40", <<"U+1F48">>>>, <<"U+1F41", <<"U+1F49">>>>, <<"U+1F42",
      <<"U+1F4A">>>>, <<"U+1F43", <<"U+1F4B">>>>, <<"U+1F44", <<"U+1F4C">>>>, <<"U+1F45",
      <<"U+1F4D">>>>, <<"U+1F50", <<"U+03A5", "U+0313">>>>, <<"U+1F51", <<"U+1F59">>>>,
      <<"U+1F52", <<"U+03A5", "U+0313", "U+0300">>>>, <<"U+1F53", <<"U+1F5B">>>>, <<"U+1F54",
      <<"U+03A5", "U+0313", "U+0301">>>>, <<"U+1F55", <<"U+1F5D">>>>, <<"U+1F56", <<"U+03A5",
      "U+0313", "U+0342">>>>, <<"U+1F57", <<"U+1F5F">>>>, <<"U+1F60", <<"U+1F68">>>>, <<"U+1F61",
      <<"U+1F69">>>>, <<"U+1F62", <<"U+1F6A">>>>, <<"U+1F63", <<"U+1F6B">>>>, <<"U+1F64",
      <<"U+1F6C">>>>, <<"U+1F65", <<"U+1F6D">>>>, <<"U+1F66", <<"U+1F6E">>>>, <<"U+1F67",
      <<"U+1F6F">>>>, <<"U+1F70", <<"U+1FBA">>>>, <<"U+1F71", <<"U+1FBB">>>>, <<"U+1F72",
      <<"U+1FC8">>>>, <<"U+1F73", <<"U+1FC9">>>>, <<"U+1F74", <<"U+1FCA">>>>, <<"U+1F75",
      <<"U+1FCB">>>>, <<"U+1F76", <<"U+1FDA">>>>, <<"U+1F77", <<"U+1FDB">>>>, <<"U+1F78",
      <<"U+1FF8">>>>, <<"U+1F79", <<"U+1FF9">>>>, <<"U+1F7A", <<"U+1FEA">>>>, <<"U+1F7B",
      <<"U+1FEB">>>>, <<"U+1F7C", <<"U+1FFA">>>>, <<"U+1F7D", <<"U+1FFB">>>>, <<"U+1F80",
      <<"U+1F08", "U+0399">>>>, <<"U+1F81", <<"U+1F09", "U+0399">>>>, <<"U+1F82", <<"U+1F0A",
      "U+0399">>>>, <<"U+1F83", <<"U+1F0B", "U+0399">>>>, <<"U+1F84", <<"U+1F0C", "U+0399">>>>,
      <<"U+1F85", <<"U+1F0D", "U+0399">>>>, <<"U+1F86", <<"U+1F0E", "U+0399">>>>, <<"U+1F87",
      <<"U+1F0F", "U+0399">>>>, <<"U+1F88", <<"U+1F08", "U+0399">>>>, <<"U+1F89", <<"U+1F09",
      "U+0399">>>>, <<"U+1F8A", <<"U+1F0A", "U+0399">>>>, <<"U+1F8B", <<"U+1F0B", "U+0399">>>>,
      <<"U+1F8C", <<"U+1F0C", "U+0399">>>>, <<"U+1F8D", <<"U+1F0D", "U+0399">>>>, <<"U+1F8E",
      <<"U+1F0E", "U+0399">>>>, <<"U+1F8F", <<"U+1F0F", "U+0399">>>>, <<"U+1F90", <<"U+1F28",
      "U+0399">>>>, <<"U+1F91", <<"U+1F29", "U+0399">>>>, <<"U+1F92", <<"U+1F2A", "U+0399">>>>,
      <<"U+1F93", <<"U+1F2B", "U+0399">>>>, <<"U+1F94", <<"U+1F2C", "U+0399">>>>, <<"U+1F95",
      <<"U+1F2D", "U+0399">>>>, <<"U+1F96", <<"U+1F2E", "U+0399">>>>, <<"U+1F97", <<"U+1F2F",
      "U+0399">>>>, <<"U+1F98", <<"U+1F28", "U+0399">>>>, <<"U+1F99", <<"U+1F29", "U+0399">>>>,
      <<"U+1F9A", <<"U+1F2A", "U+0399">>>>, <<"U+1F9B", <<"U+1F2B", "U+0399">>>>, <<"U+1F9C",
      <<"U+1F2C", "U+0399">>>>, <<"U+1F9D", <<"U+1F2D", "U+0399">>>>, <<"U+1F9E", <<"U+1F2E",
      "U+0399">>>>, <<"U+1F9F", <<"U+1F2F", "U+0399">>>>, <<"U+1FA0", <<"U+1F68", "U+0399">>>>,
      <<"U+1FA1", <<"U+1F69", "U+0399">>>>, <<"U+1FA2", <<"U+1F6A", "U+0399">>>>, <<"U+1FA3",
      <<"U+1F6B", "U+0399">>>>, <<"U+1FA4", <<"U+1F6C", "U+0399">>>>, <<"U+1FA5", <<"U+1F6D",
      "U+0399">>>>, <<"U+1FA6", <<"U+1F6E", "U+0399">>>>, <<"U+1FA7", <<"U+1F6F", "U+0399">>>>,
      <<"U+1FA8", <<"U+1F68", "U+0399">>>>, <<"U+1FA9", <<"U+1F69", "U+0399">>>>, <<"U+1FAA",
      <<"U+1F6A", "U+0399">>>>, <<"U+1FAB", <<"U+1F6B", "U+0399">>>>, <<"U+1FAC", <<"U+1F6C",
      "U+0399">>>>, <<"U+1FAD", <<"U+1F6D", "U+0399">>>>, <<"U+1FAE", <<"U+1F6E", "U+0399">>>>,
      <<"U+1FAF", <<"U+1F6F", "U+0399">>>>, <<"U+1FB0", <<"U+1FB8">>>>, <<"U+1FB1",
      <<"U+1FB9">>>>, <<"U+1FB2", <<"U+1FBA", "U+0399">>>>, <<"U+1FB3", <<"U+0391", "U+0399">>>>,
      <<"U+1FB4", <<"U+0386", "U+0399">>>>, <<"U+1FB6", <<"U+0391", "U+0342">>>>, <<"U+1FB7",
      <<"U+0391", "U+0342", "U+0399">>>>, <<"U+1FBC", <<"U+0391", "U+0399">>>>, <<"U+1FBE",
      <<"U+0399">>>>, <<"U+1FC2", <<"U+1FCA", "U+0399">>>>, <<"U+1FC3", <<"U+0397", "U+0399">>>>,
      <<"U+1FC4", <<"U+0389", "U+0399">>>>, <<"U+1FC6", <<"U+0397", "U+0342">>>>, <<"U+1FC7",
      <<"U+0397", "U+0342", "U+0399">>>>, <<"U+1FCC", <<"U+0397", "U+0399">>>>, <<"U+1FD0",
      <<"U+1FD8">>>>, <<"U+1FD1", <<"U+1FD9">>>>, <<"U+1FD2", <<"U+0399", "U+0308", "U+0300">>>>,
      <<"U+1FD3", <<"U+0399", "U+0308", "U+0301">>>>, <<"U+1FD6", <<"U+0399", "U+0342">>>>,
      <<"U+1FD7", <<"U+0399", "U+0308", "U+0342">>>>, <<"U+1FE0", <<"U+1FE8">>>>, <<"U+1FE1",
      <<"U+1FE9">>>>, <<"U+1FE2", <<"U+03A5", "U+0308", "U+0300">>>>, <<"U+1FE3", <<"U+03A5",
      "U+0308", "U+0301">>>>, <<"U+1FE4", <<"U+03A1", "U+0313">>>>, <<"U+1FE5", <<"U+1FEC">>>>,
      <<"U+1FE6", <<"U+03A5", "U+0342">>>>, <<"U+1FE7", <<"U+03A5", "U+0308", "U+0342">>>>,
      <<"U+1FF2", <<"U+1FFA", "U+0399">>>>, <<"U+1FF3", <<"U+03A9", "U+0399">>>>, <<"U+1FF4",
      <<"U+038F", "U+0399">>>>, <<"U+1FF6", <<"U+03A9", "U+0342">>>>, <<"U+1FF7", <<"U+03A9",
      "U+0342", "U+0399">>>>, <<"U+1FFC", <<"U+03A9", "U+0399">>>>, <<"U+214E", <<"U+2132">>>>,
      <<"U+2170", <<"U+2160">>>>, <<"U+2171", <<"U+2161">>>>, <<"U+2172", <<"U+2162">>>>,
      <<"U+2173", <<"U+2163">>>>, <<"U+2174", <<"U+2164">>>>, <<"U+2175", <<"U+2165">>>>,
      <<"U+2176", <<"U+2166">>>>, <<"U+2177", <<"U+2167">>>>, <<"U+2178", <<"U+2168">>>>,
      <<"U+2179", <<"U+2169">>>>, <<"U+217A", <<"U+216A">>>>, <<"U+217B", <<"U+216B">>>>,
      <<"U+217C", <<"U+216C">>>>, <<"U+217D", <<"U+216D">>>>, <<"U+217E", <<"U+216E">>>>,
      <<"U+217F", <<"U+216F">>>>, <<"U+2184", <<"U+2183">>>>, <<"U+24D0", <<"U+24B6">>>>,
      <<"U+24D1", <<"U+24B7">>>>, <<"U+24D2", <<"U+24B8">>>>, <<"U+24D3", <<"U+24B9">>>>,
      <<"U+24D4", <<"U+24BA">>>>, <<"U+24D5", <<"U+24BB">>>>, <<"U+24D6", <<"U+24BC">>>>,
      <<"U+24D7", <<"U+24BD">>>>, <<"U+24D8", <<"U+24BE">>>>, <<"U+24D9", <<"U+24BF">>>>,
      <<"U+24DA", <<"U+24C0">>>>, <<"U+24DB", <<"U+24C1">>>>, <<"U+24DC", <<"U+24C2">>>>,
      <<"U+24DD", <<"U+24C3">>>>, <<"U+24DE", <<"U+24C4">>>>, <<"U+24DF", <<"U+24C5">>>>,
      <<"U+24E0", <<"U+24C6">>>>, <<"U+24E1", <<"U+24C7">>>>, <<"U+24E2", <<"U+24C8">>>>,
      <<"U+24E3", <<"U+24C9">>>>, <<"U+24E4", <<"U+24CA">>>>, <<"U+24E5", <<"U+24CB">>>>,
      <<"U+24E6", <<"U+24CC">>>>, <<"U+24E7", <<"U+24CD">>>>, <<"U+24E8", <<"U+24CE">>>>,
      <<"U+24E9", <<"U+24CF">>>>, <<"U+2C30", <<"U+2C00">>>>, <<"U+2C31", <<"U+2C01">>>>,
      <<"U+2C32", <<"U+2C02">>>>, <<"U+2C33", <<"U+2C03">>>>, <<"U+2C34", <<"U+2C04">>>>,
      <<"U+2C35", <<"U+2C05">>>>, <<"U+2C36", <<"U+2C06">>>>, <<"U+2C37", <<"U+2C07">>>>,
      <<"U+2C38", <<"U+2C08">>>>, <<"U+2C39", <<"U+2C09">>>>, <<"U+2C3A", <<"U+2C0A">>>>,
      <<"U+2C3B", <<"U+2C0B">>>>, <<"U+2C3C", <<"U+2C0C">>>>, <<"U+2C3D", <<"U+2C0D">>>>,
      <<"U+2C3E", <<"U+2C0E">>>>, <<"U+2C3F", <<"U+2C0F">>>>, <<"U+2C40", <<"U+2C10">>>>,
      <<"U+2C41", <<"U+2C11">>>>, <<"U+2C42", <<"U+2C12">>>>, <<"U+2C43", <<"U+2C13">>>>,
      <<"U+2C44", <<"U+2C14">>>>, <<"U+2C45", <<"U+2C15">>>>, <<"U+2C46", <<"U+2C16">>>>,
      <<"U+2C47", <<"U+2C17">>>>, <<"U+2C48", <<"U+2C18">>>>, <<"U+2C49", <<"U+2C19">>>>,
      <<"U+2C4A", <<"U+2C1A">>>>, <<"U+2C4B", <<"U+2C1B">>>>, <<"U+2C4C", <<"U+2C1C">>>>,
      <<"U+2C4D", <<"U+2C1D">>>>, <<"U+2C4E", <<"U+2C1E">>>>, <<"U+2C4F", <<"U+2C1F">>>>,
      <<"U+2C50", <<"U+2C20">>>>, <<"U+2C51", <<"U+2C21">>>>, <<"U+2C52", <<"U+2C22">>>>,
      <<"U+2C53", <<"U+2C23">>>>, <<"U+2C54", <<"U+2C24">>>>, <<"U+2C55", <<"U+2C25">>>>,
      <<"U+2C56", <<"U+2C26">>>>, <<"U+2C57", <<"U+2C27">>>>, <<"U+2C58", <<"U+2C28">>>>,
      <<"U+2C59", <<"U+2C29">>>>, <<"U+2C5A", <<"U+2C2A">>>>, <<"U+2C5B", <<"U+2C2B">>>>,
      <<"U+2C5C", <<"U+2C2C">>>>, <<"U+2C5D", <<"U+2C2D">>>>, <<"U+2C5E", <<"U+2C2E">>>>,
      <<"U+2C5F", <<"U+2C2F">>>>, <<"U+2C61", <<"U+2C60">>>>, <<"U+2C65", <<"U+023A">>>>,
      <<"U+2C66", <<"U+023E">>>>, <<"U+2C68", <<"U+2C67">>>>, <<"U+2C6A", <<"U+2C69">>>>,
      <<"U+2C6C", <<"U+2C6B">>>>, <<"U+2C73", <<"U+2C72">>>>, <<"U+2C76", <<"U+2C75">>>>,
      <<"U+2C81", <<"U+2C80">>>>, <<"U+2C83", <<"U+2C82">>>>, <<"U+2C85", <<"U+2C84">>>>,
      <<"U+2C87", <<"U+2C86">>>>, <<"U+2C89", <<"U+2C88">>>>, <<"U+2C8B", <<"U+2C8A">>>>,
      <<"U+2C8D", <<"U+2C8C">>>>, <<"U+2C8F", <<"U+2C8E">>>>, <<"U+2C91", <<"U+2C90">>>>,
      <<"U+2C93", <<"U+2C92">>>>, <<"U+2C95", <<"U+2C94">>>>, <<"U+2C97", <<"U+2C96">>>>,
      <<"U+2C99", <<"U+2C98">>>>, <<"U+2C9B", <<"U+2C9A">>>>, <<"U+2C9D", <<"U+2C9C">>>>,
      <<"U+2C9F", <<"U+2C9E">>>>, <<"U+2CA1", <<"U+2CA0">>>>, <<"U+2CA3", <<"U+2CA2">>>>,
      <<"U+2CA5", <<"U+2CA4">>>>, <<"U+2CA7", <<"U+2CA6">>>>, <<"U+2CA9", <<"U+2CA8">>>>,
      <<"U+2CAB", <<"U+2CAA">>>>, <<"U+2CAD", <<"U+2CAC">>>>, <<"U+2CAF", <<"U+2CAE">>>>,
      <<"U+2CB1", <<"U+2CB0">>>>, <<"U+2CB3", <<"U+2CB2">>>>, <<"U+2CB5", <<"U+2CB4">>>>,
      <<"U+2CB7", <<"U+2CB6">>>>, <<"U+2CB9", <<"U+2CB8">>>>, <<"U+2CBB", <<"U+2CBA">>>>,
      <<"U+2CBD", <<"U+2CBC">>>>, <<"U+2CBF", <<"U+2CBE">>>>, <<"U+2CC1", <<"U+2CC0">>>>,
      <<"U+2CC3", <<"U+2CC2">>>>, <<"U+2CC5", <<"U+2CC4">>>>, <<"U+2CC7", <<"U+2CC6">>>>,
      <<"U+2CC9", <<"U+2CC8">>>>, <<"U+2CCB", <<"U+2CCA">>>>, <<"U+2CCD", <<"U+2CCC">>>>,
      <<"U+2CCF", <<"U+2CCE">>>>, <<"U+2CD1", <<"U+2CD0">>>>, <<"U+2CD3", <<"U+2CD2">>>>,
      <<"U+2CD5", <<"U+2CD4">>>>, <<"U+2CD7", <<"U+2CD6">>>>, <<"U+2CD9", <<"U+2CD8">>>>,
      <<"U+2CDB", <<"U+2CDA">>>>, <<"U+2CDD", <<"U+2CDC">>>>, <<"U+2CDF", <<"U+2CDE">>>>,
      <<"U+2CE1", <<"U+2CE0">>>>, <<"U+2CE3", <<"U+2CE2">>>>, <<"U+2CEC", <<"U+2CEB">>>>,
      <<"U+2CEE", <<"U+2CED">>>>, <<"U+2CF3", <<"U+2CF2">>>>, <<"U+2D00", <<"U+10A0">>>>,
      <<"U+2D01", <<"U+10A1">>>>, <<"U+2D02", <<"U+10A2">>>>, <<"U+2D03", <<"U+10A3">>>>,
      <<"U+2D04", <<"U+10A4">>>>, <<"U+2D05", <<"U+10A5">>>>, <<"U+2D06", <<"U+10A6">>>>,
      <<"U+2D07", <<"U+10A7">>>>, <<"U+2D08", <<"U+10A8">>>>, <<"U+2D09", <<"U+10A9">>>>,
      <<"U+2D0A", <<"U+10AA">>>>, <<"U+2D0B", <<"U+10AB">>>>, <<"U+2D0C", <<"U+10AC">>>>,
      <<"U+2D0D", <<"U+10AD">>>>, <<"U+2D0E", <<"U+10AE">>>>, <<"U+2D0F", <<"U+10AF">>>>,
      <<"U+2D10", <<"U+10B0">>>>, <<"U+2D11", <<"U+10B1">>>>, <<"U+2D12", <<"U+10B2">>>>,
      <<"U+2D13", <<"U+10B3">>>>, <<"U+2D14", <<"U+10B4">>>>, <<"U+2D15", <<"U+10B5">>>>,
      <<"U+2D16", <<"U+10B6">>>>, <<"U+2D17", <<"U+10B7">>>>, <<"U+2D18", <<"U+10B8">>>>,
      <<"U+2D19", <<"U+10B9">>>>, <<"U+2D1A", <<"U+10BA">>>>, <<"U+2D1B", <<"U+10BB">>>>,
      <<"U+2D1C", <<"U+10BC">>>>, <<"U+2D1D", <<"U+10BD">>>>, <<"U+2D1E", <<"U+10BE">>>>,
      <<"U+2D1F", <<"U+10BF">>>>, <<"U+2D20", <<"U+10C0">>>>, <<"U+2D21", <<"U+10C1">>>>,
      <<"U+2D22", <<"U+10C2">>>>, <<"U+2D23", <<"U+10C3">>>>, <<"U+2D24", <<"U+10C4">>>>,
      <<"U+2D25", <<"U+10C5">>>>, <<"U+2D27", <<"U+10C7">>>>, <<"U+2D2D", <<"U+10CD">>>>,
      <<"U+A641", <<"U+A640">>>>, <<"U+A643", <<"U+A642">>>>, <<"U+A645", <<"U+A644">>>>,
      <<"U+A647", <<"U+A646">>>>, <<"U+A649", <<"U+A648">>>>, <<"U+A64B", <<"U+A64A">>>>,
      <<"U+A64D", <<"U+A64C">>>>, <<"U+A64F", <<"U+A64E">>>>, <<"U+A651", <<"U+A650">>>>,
      <<"U+A653", <<"U+A652">>>>, <<"U+A655", <<"U+A654">>>>, <<"U+A657", <<"U+A656">>>>,
      <<"U+A659", <<"U+A658">>>>, <<"U+A65B", <<"U+A65A">>>>, <<"U+A65D", <<"U+A65C">>>>,
      <<"U+A65F", <<"U+A65E">>>>, <<"U+A661", <<"U+A660">>>>, <<"U+A663", <<"U+A662">>>>,
      <<"U+A665", <<"U+A664">>>>, <<"U+A667", <<"U+A666">>>>, <<"U+A669", <<"U+A668">>>>,
      <<"U+A66B", <<"U+A66A">>>>, <<"U+A66D", <<"U+A66C">>>>, <<"U+A681", <<"U+A680">>>>,
      <<"U+A683", <<"U+A682">>>>, <<"U+A685", <<"U+A684">>>>, <<"U+A687", <<"U+A686">>>>,
      <<"U+A689", <<"U+A688">>>>, <<"U+A68B", <<"U+A68A">>>>, <<"U+A68D", <<"U+A68C">>>>,
      <<"U+A68F", <<"U+A68E">>>>, <<"U+A691", <<"U+A690">>>>, <<"U+A693", <<"U+A692">>>>,
      <<"U+A695", <<"U+A694">>>>, <<"U+A697", <<"U+A696">>>>, <<"U+A699", <<"U+A698">>>>,
      <<"U+A69B", <<"U+A69A">>>>, <<"U+A723", <<"U+A722">>>>, <<"U+A725", <<"U+A724">>>>,
      <<"U+A727", <<"U+A726">>>>, <<"U+A729", <<"U+A728">>>>, <<"U+A72B", <<"U+A72A">>>>,
      <<"U+A72D", <<"U+A72C">>>>, <<"U+A72F", <<"U+A72E">>>>, <<"U+A733", <<"U+A732">>>>,
      <<"U+A735", <<"U+A734">>>>, <<"U+A737", <<"U+A736">>>>, <<"U+A739", <<"U+A738">>>>,
      <<"U+A73B", <<"U+A73A">>>>, <<"U+A73D", <<"U+A73C">>>>, <<"U+A73F", <<"U+A73E">>>>,
      <<"U+A741", <<"U+A740">>>>, <<"U+A743", <<"U+A742">>>>, <<"U+A745", <<"U+A744">>>>,
      <<"U+A747", <<"U+A746">>>>, <<"U+A749", <<"U+A748">>>>, <<"U+A74B", <<"U+A74A">>>>,
      <<"U+A74D", <<"U+A74C">>>>, <<"U+A74F", <<"U+A74E">>>>, <<"U+A751", <<"U+A750">>>>,
      <<"U+A753", <<"U+A752">>>>, <<"U+A755", <<"U+A754">>>>, <<"U+A757", <<"U+A756">>>>,
      <<"U+A759", <<"U+A758">>>>, <<"U+A75B", <<"U+A75A">>>>, <<"U+A75D", <<"U+A75C">>>>,
      <<"U+A75F", <<"U+A75E">>>>, <<"U+A761", <<"U+A760">>>>, <<"U+A763", <<"U+A762">>>>,
      <<"U+A765", <<"U+A764">>>>, <<"U+A767", <<"U+A766">>>>, <<"U+A769", <<"U+A768">>>>,
      <<"U+A76B", <<"U+A76A">>>>, <<"U+A76D", <<"U+A76C">>>>, <<"U+A76F", <<"U+A76E">>>>,
      <<"U+A77A", <<"U+A779">>>>, <<"U+A77C", <<"U+A77B">>>>, <<"U+A77F", <<"U+A77E">>>>,
      <<"U+A781", <<"U+A780">>>>, <<"U+A783", <<"U+A782">>>>, <<"U+A785", <<"U+A784">>>>,
      <<"U+A787", <<"U+A786">>>>, <<"U+A78C", <<"U+A78B">>>>, <<"U+A791", <<"U+A790">>>>,
      <<"U+A793", <<"U+A792">>>>, <<"U+A794", <<"U+A7C4">>>>, <<"U+A797", <<"U+A796">>>>,
      <<"U+A799", <<"U+A798">>>>, <<"U+A79B", <<"U+A79A">>>>, <<"U+A79D", <<"U+A79C">>>>,
      <<"U+A79F", <<"U+A79E">>>>, <<"U+A7A1", <<"U+A7A0">>>>, <<"U+A7A3", <<"U+A7A2">>>>,
      <<"U+A7A5", <<"U+A7A4">>>>, <<"U+A7A7", <<"U+A7A6">>>>, <<"U+A7A9", <<"U+A7A8">>>>,
      <<"U+A7B5", <<"U+A7B4">>>>, <<"U+A7B7", <<"U+A7B6">>>>, <<"U+A7B9", <<"U+A7B8">>>>,
      <<"U+A7BB", <<"U+A7BA">>>>, <<"U+A7BD", <<"U+A7BC">>>>, <<"U+A7BF", <<"U+A7BE">>>>,
      <<"U+A7C1", <<"U+A7C0">>>>, <<"U+A7C3", <<"U+A7C2">>>>, <<"U+A7C8", <<"U+A7C7">>>>,
      <<"U+A7CA", <<"U+A7C9">>>>, <<"U+A7CD", <<"U+A7CC">>>>, <<"U+A7CF", <<"U+A7CE">>>>,
      <<"U+A7D1", <<"U+A7D0">>>>, <<"U+A7D3", <<"U+A7D2">>>>, <<"U+A7D5", <<"U+A7D4">>>>,
      <<"U+A7D7", <<"U+A7D6">>>>, <<"U+A7D9", <<"U+A7D8">>>>, <<"U+A7DB", <<"U+A7DA">>>>,
      <<"U+A7F6", <<"U+A7F5">>>>, <<"U+AB53", <<"U+A7B3">>>>, <<"U+AB70", <<"U+13A0">>>>,
      <<"U+AB71", <<"U+13A1">>>>, <<"U+AB72", <<"U+13A2">>>>, <<"U+AB73", <<"U+13A3">>>>,
      <<"U+AB74", <<"U+13A4">>>>, <<"U+AB75", <<"U+13A5">>>>, <<"U+AB76", <<"U+13A6">>>>,
      <<"U+AB77", <<"U+13A7">>>>, <<"U+AB78", <<"U+13A8">>>>, <<"U+AB79", <<"U+13A9">>>>,
      <<"U+AB7A", <<"U+13AA">>>>, <<"U+AB7B", <<"U+13AB">>>>, <<"U+AB7C", <<"U+13AC">>>>,
      <<"U+AB7D", <<"U+13AD">>>>, <<"U+AB7E", <<"U+13AE">>>>, <<"U+AB7F", <<"U+13AF">>>>,
      <<"U+AB80", <<"U+13B0">>>>, <<"U+AB81", <<"U+13B1">>>>, <<"U+AB82", <<"U+13B2">>>>,
      <<"U+AB83", <<"U+13B3">>>>, <<"U+AB84", <<"U+13B4">>>>, <<"U+AB85", <<"U+13B5">>>>,
      <<"U+AB86", <<"U+13B6">>>>, <<"U+AB87", <<"U+13B7">>>>, <<"U+AB88", <<"U+13B8">>>>,
      <<"U+AB89", <<"U+13B9">>>>, <<"U+AB8A", <<"U+13BA">>>>, <<"U+AB8B", <<"U+13BB">>>>,
      <<"U+AB8C", <<"U+13BC">>>>, <<"U+AB8D", <<"U+13BD">>>>, <<"U+AB8E", <<"U+13BE">>>>,
      <<"U+AB8F", <<"U+13BF">>>>, <<"U+AB90", <<"U+13C0">>>>, <<"U+AB91", <<"U+13C1">>>>,
      <<"U+AB92", <<"U+13C2">>>>, <<"U+AB93", <<"U+13C3">>>>, <<"U+AB94", <<"U+13C4">>>>,
      <<"U+AB95", <<"U+13C5">>>>, <<"U+AB96", <<"U+13C6">>>>, <<"U+AB97", <<"U+13C7">>>>,
      <<"U+AB98", <<"U+13C8">>>>, <<"U+AB99", <<"U+13C9">>>>, <<"U+AB9A", <<"U+13CA">>>>,
      <<"U+AB9B", <<"U+13CB">>>>, <<"U+AB9C", <<"U+13CC">>>>, <<"U+AB9D", <<"U+13CD">>>>,
      <<"U+AB9E", <<"U+13CE">>>>, <<"U+AB9F", <<"U+13CF">>>>, <<"U+ABA0", <<"U+13D0">>>>,
      <<"U+ABA1", <<"U+13D1">>>>, <<"U+ABA2", <<"U+13D2">>>>, <<"U+ABA3", <<"U+13D3">>>>,
      <<"U+ABA4", <<"U+13D4">>>>, <<"U+ABA5", <<"U+13D5">>>>, <<"U+ABA6", <<"U+13D6">>>>,
      <<"U+ABA7", <<"U+13D7">>>>, <<"U+ABA8", <<"U+13D8">>>>, <<"U+ABA9", <<"U+13D9">>>>,
      <<"U+ABAA", <<"U+13DA">>>>, <<"U+ABAB", <<"U+13DB">>>>, <<"U+ABAC", <<"U+13DC">>>>,
      <<"U+ABAD", <<"U+13DD">>>>, <<"U+ABAE", <<"U+13DE">>>>, <<"U+ABAF", <<"U+13DF">>>>,
      <<"U+ABB0", <<"U+13E0">>>>, <<"U+ABB1", <<"U+13E1">>>>, <<"U+ABB2", <<"U+13E2">>>>,
      <<"U+ABB3", <<"U+13E3">>>>, <<"U+ABB4", <<"U+13E4">>>>, <<"U+ABB5", <<"U+13E5">>>>,
      <<"U+ABB6", <<"U+13E6">>>>, <<"U+ABB7", <<"U+13E7">>>>, <<"U+ABB8", <<"U+13E8">>>>,
      <<"U+ABB9", <<"U+13E9">>>>, <<"U+ABBA", <<"U+13EA">>>>, <<"U+ABBB", <<"U+13EB">>>>,
      <<"U+ABBC", <<"U+13EC">>>>, <<"U+ABBD", <<"U+13ED">>>>, <<"U+ABBE", <<"U+13EE">>>>,
      <<"U+ABBF", <<"U+13EF">>>>, <<"U+FB00", <<"F", "F">>>>, <<"U+FB01", <<"F", "I">>>>,
      <<"U+FB02", <<"F", "L">>>>, <<"U+FB03", <<"F", "F", "I">>>>, <<"U+FB04", <<"F", "F",
      "L">>>>, <<"U+FB05", <<"S", "T">>>>, <<"U+FB06", <<"S", "T">>>>, <<"U+FB13", <<"U+0544",
      "U+0546">>>>, <<"U+FB14", <<"U+0544", "U+0535">>>>, <<"U+FB15", <<"U+0544", "U+053B">>>>,
      <<"U+FB16", <<"U+054E", "U+0546">>>>, <<"U+FB17", <<"U+0544", "U+053D">>>>, <<"U+FF41",
      <<"U+FF21">>>>, <<"U+FF42", <<"U+FF22">>>>, <<"U+FF43", <<"U+FF23">>>>, <<"U+FF44",
      <<"U+FF24">>>>, <<"U+FF45", <<"U+FF25">>>>, <<"U+FF46", <<"U+FF26">>>>, <<"U+FF47",
      <<"U+FF27">>>>, <<"U+FF48", <<"U+FF28">>>>, <<"U+FF49", <<"U+FF29">>>>, <<"U+FF4A",
      <<"U+FF2A">>>>, <<"U+FF4B", <<"U+FF2B">>>>, <<"U+FF4C", <<"U+FF2C">>>>, <<"U+FF4D",
      <<"U+FF2D">>>>, <<"U+FF4E", <<"U+FF2E">>>>, <<"U+FF4F", <<"U+FF2F">>>>, <<"U+FF50",
      <<"U+FF30">>>>, <<"U+FF51", <<"U+FF31">>>>, <<"U+FF52", <<"U+FF32">>>>, <<"U+FF53",
      <<"U+FF33">>>>, <<"U+FF54", <<"U+FF34">>>>, <<"U+FF55", <<"U+FF35">>>>, <<"U+FF56",
      <<"U+FF36">>>>, <<"U+FF57", <<"U+FF37">>>>, <<"U+FF58", <<"U+FF38">>>>, <<"U+FF59",
      <<"U+FF39">>>>, <<"U+FF5A", <<"U+FF3A">>>> }

\* the character a code unit stands for, to its upper case
UpperOf == [c \in {p[1] : p \in UpperPairs} |-> (CHOOSE p \in UpperPairs : p[1] = c)[2]]

\* the characters outside the Basic Multilingual Plane that toUpperCase
\* changes, as surrogate pairs
UpperSurrogatePairs ==
    { <<<<"U+D801", "U+DC28">>, <<"U+D801", "U+DC00">>>>, <<<<"U+D801", "U+DC29">>, <<"U+D801",
      "U+DC01">>>>, <<<<"U+D801", "U+DC2A">>, <<"U+D801", "U+DC02">>>>, <<<<"U+D801", "U+DC2B">>,
      <<"U+D801", "U+DC03">>>>, <<<<"U+D801", "U+DC2C">>, <<"U+D801", "U+DC04">>>>, <<<<"U+D801",
      "U+DC2D">>, <<"U+D801", "U+DC05">>>>, <<<<"U+D801", "U+DC2E">>, <<"U+D801", "U+DC06">>>>,
      <<<<"U+D801", "U+DC2F">>, <<"U+D801", "U+DC07">>>>, <<<<"U+D801", "U+DC30">>, <<"U+D801",
      "U+DC08">>>>, <<<<"U+D801", "U+DC31">>, <<"U+D801", "U+DC09">>>>, <<<<"U+D801", "U+DC32">>,
      <<"U+D801", "U+DC0A">>>>, <<<<"U+D801", "U+DC33">>, <<"U+D801", "U+DC0B">>>>, <<<<"U+D801",
      "U+DC34">>, <<"U+D801", "U+DC0C">>>>, <<<<"U+D801", "U+DC35">>, <<"U+D801", "U+DC0D">>>>,
      <<<<"U+D801", "U+DC36">>, <<"U+D801", "U+DC0E">>>>, <<<<"U+D801", "U+DC37">>, <<"U+D801",
      "U+DC0F">>>>, <<<<"U+D801", "U+DC38">>, <<"U+D801", "U+DC10">>>>, <<<<"U+D801", "U+DC39">>,
      <<"U+D801", "U+DC11">>>>, <<<<"U+D801", "U+DC3A">>, <<"U+D801", "U+DC12">>>>, <<<<"U+D801",
      "U+DC3B">>, <<"U+D801", "U+DC13">>>>, <<<<"U+D801", "U+DC3C">>, <<"U+D801", "U+DC14">>>>,
      <<<<"U+D801", "U+DC3D">>, <<"U+D801", "U+DC15">>>>, <<<<"U+D801", "U+DC3E">>, <<"U+D801",
      "U+DC16">>>>, <<<<"U+D801", "U+DC3F">>, <<"U+D801", "U+DC17">>>>, <<<<"U+D801", "U+DC40">>,
      <<"U+D801", "U+DC18">>>>, <<<<"U+D801", "U+DC41">>, <<"U+D801", "U+DC19">>>>, <<<<"U+D801",
      "U+DC42">>, <<"U+D801", "U+DC1A">>>>, <<<<"U+D801", "U+DC43">>, <<"U+D801", "U+DC1B">>>>,
      <<<<"U+D801", "U+DC44">>, <<"U+D801", "U+DC1C">>>>, <<<<"U+D801", "U+DC45">>, <<"U+D801",
      "U+DC1D">>>>, <<<<"U+D801", "U+DC46">>, <<"U+D801", "U+DC1E">>>>, <<<<"U+D801", "U+DC47">>,
      <<"U+D801", "U+DC1F">>>>, <<<<"U+D801", "U+DC48">>, <<"U+D801", "U+DC20">>>>, <<<<"U+D801",
      "U+DC49">>, <<"U+D801", "U+DC21">>>>, <<<<"U+D801", "U+DC4A">>, <<"U+D801", "U+DC22">>>>,
      <<<<"U+D801", "U+DC4B">>, <<"U+D801", "U+DC23">>>>, <<<<"U+D801", "U+DC4C">>, <<"U+D801",
      "U+DC24">>>>, <<<<"U+D801", "U+DC4D">>, <<"U+D801", "U+DC25">>>>, <<<<"U+D801", "U+DC4E">>,
      <<"U+D801", "U+DC26">>>>, <<<<"U+D801", "U+DC4F">>, <<"U+D801", "U+DC27">>>>, <<<<"U+D801",
      "U+DCD8">>, <<"U+D801", "U+DCB0">>>>, <<<<"U+D801", "U+DCD9">>, <<"U+D801", "U+DCB1">>>>,
      <<<<"U+D801", "U+DCDA">>, <<"U+D801", "U+DCB2">>>>, <<<<"U+D801", "U+DCDB">>, <<"U+D801",
      "U+DCB3">>>>, <<<<"U+D801", "U+DCDC">>, <<"U+D801", "U+DCB4">>>>, <<<<"U+D801", "U+DCDD">>,
      <<"U+D801", "U+DCB5">>>>, <<<<"U+D801", "U+DCDE">>, <<"U+D801", "U+DCB6">>>>, <<<<"U+D801",
      "U+DCDF">>, <<"U+D801", "U+DCB7">>>>, <<<<"U+D801", "U+DCE0">>, <<"U+D801", "U+DCB8">>>>,
      <<<<"U+D801", "U+DCE1">>, <<"U+D801", "U+DCB9">>>>, <<<<"U+D801", "U+DCE2">>, <<"U+D801",
      "U+DCBA">>>>, <<<<"U+D801", "U+DCE3">>, <<"U+D801", "U+DCBB">>>>, <<<<"U+D801", "U+DCE4">>,
      <<"U+D801", "U+DCBC">>>>, <<<<"U+D801", "U+DCE5">>, <<"U+D801", "U+DCBD">>>>, <<<<"U+D801",
      "U+DCE6">>, <<"U+D801", "U+DCBE">>>>, <<<<"U+D801", "U+DCE7">>, <<"U+D801", "U+DCBF">>>>,
      <<<<"U+D801", "U+DCE8">>, <<"U+D801", "U+DCC0">>>>, <<<<"U+D801", "U+DCE9">>, <<"U+D801",
      "U+DCC1">>>>, <<<<"U+D801", "U+DCEA">>, <<"U+D801", "U+DCC2">>>>, <<<<"U+D801", "U+DCEB">>,
      <<"U+D801", "U+DCC3">>>>, <<<<"U+D801", "U+DCEC">>, <<"U+D801", "U+DCC4">>>>, <<<<"U+D801",
      "U+DCED">>, <<"U+D801", "U+DCC5">>>>, <<<<"U+D801", "U+DCEE">>, <<"U+D801", "U+DCC6">>>>,
      <<<<"U+D801", "U+DCEF">>, <<"U+D801", "U+DCC7">>>>, <<<<"U+D801", "U+DCF0">>, <<"U+D801",
      "U+DCC8">>>>, <<<<"U+D801", "U+DCF1">>, <<"U+D801", "U+DCC9">>>>, <<<<"U+D801", "U+DCF2">>,
      <<"U+D801", "U+DCCA">>>>, <<<<"U+D801", "U+DCF3">>, <<"U+D801", "U+DCCB">>>>, <<<<"U+D801",
      "U+DCF4">>, <<"U+D801", "U+DCCC">>>>, <<<<"U+D801", "U+DCF5">>, <<"U+D801", "U+DCCD">>>>,
      <<<<"U+D801", "U+DCF6">>, <<"U+D801", "U+DCCE">>>>, <<<<"U+D801", "U+DCF7">>, <<"U+D801",
      "U+DCCF">>>>, <<<<"U+D801", "U+DCF8">>, <<"U+D801", "U+DCD0">>>>, <<<<"U+D801", "U+DCF9">>,
      <<"U+D801", "U+DCD1">>>>, <<<<"U+D801", "U+DCFA">>, <<"U+D801", "U+DCD2">>>>, <<<<"U+D801",
      "U+DCFB">>, <<"U+D801", "U+DCD3">>>>, <<<<"U+D801", "U+DD97">>, <<"U+D801", "U+DD70">>>>,
      <<<<"U+D801", "U+DD98">>, <<"U+D801", "U+DD71">>>>, <<<<"U+D801", "U+DD99">>, <<"U+D801",
      "U+DD72">>>>, <<<<"U+D801", "U+DD9A">>, <<"U+D801", "U+DD73">>>>, <<<<"U+D801", "U+DD9B">>,
      <<"U+D801", "U+DD74">>>>, <<<<"U+D801", "U+DD9C">>, <<"U+D801", "U+DD75">>>>, <<<<"U+D801",
      "U+DD9D">>, <<"U+D801", "U+DD76">>>>, <<<<"U+D801", "U+DD9E">>, <<"U+D801", "U+DD77">>>>,
      <<<<"U+D801", "U+DD9F">>, <<"U+D801", "U+DD78">>>>, <<<<"U+D801", "U+DDA0">>, <<"U+D801",
      "U+DD79">>>>, <<<<"U+D801", "U+DDA1">>, <<"U+D801", "U+DD7A">>>>, <<<<"U+D801", "U+DDA3">>,
      <<"U+D801", "U+DD7C">>>>, <<<<"U+D801", "U+DDA4">>, <<"U+D801", "U+DD7D">>>>, <<<<"U+D801",
      "U+DDA5">>, <<"U+D801", "U+DD7E">>>>, <<<<"U+D801", "U+DDA6">>, <<"U+D801", "U+DD7F">>>>,
      <<<<"U+D801", "U+DDA7">>, <<"U+D801", "U+DD80">>>>, <<<<"U+D801", "U+DDA8">>, <<"U+D801",
      "U+DD81">>>>, <<<<"U+D801", "U+DDA9">>, <<"U+D801", "U+DD82">>>>, <<<<"U+D801", "U+DDAA">>,
      <<"U+D801", "U+DD83">>>>, <<<<"U+D801", "U+DDAB">>, <<"U+D801", "U+DD84">>>>, <<<<"U+D801",
      "U+DDAC">>, <<"U+D801", "U+DD85">>>>, <<<<"U+D801", "U+DDAD">>, <<"U+D801", "U+DD86">>>>,
      <<<<"U+D801", "U+DDAE">>, <<"U+D801", "U+DD87">>>>, <<<<"U+D801", "U+DDAF">>, <<"U+D801",
      "U+DD88">>>>, <<<<"U+D801", "U+DDB0">>, <<"U+D801", "U+DD89">>>>, <<<<"U+D801", "U+DDB1">>,
      <<"U+D801", "U+DD8A">>>>, <<<<"U+D801", "U+DDB3">>, <<"U+D801", "U+DD8C">>>>, <<<<"U+D801",
      "U+DDB4">>, <<"U+D801", "U+DD8D">>>>, <<<<"U+D801", "U+DDB5">>, <<"U+D801", "U+DD8E">>>>,
      <<<<"U+D801", "U+DDB6">>, <<"U+D801", "U+DD8F">>>>, <<<<"U+D801", "U+DDB7">>, <<"U+D801",
      "U+DD90">>>>, <<<<"U+D801", "U+DDB8">>, <<"U+D801", "U+DD91">>>>, <<<<"U+D801", "U+DDB9">>,
      <<"U+D801", "U+DD92">>>>, <<<<"U+D801", "U+DDBB">>, <<"U+D801", "U+DD94">>>>, <<<<"U+D801",
      "U+DDBC">>, <<"U+D801", "U+DD95">>>>, <<<<"U+D803", "U+DCC0">>, <<"U+D803", "U+DC80">>>>,
      <<<<"U+D803", "U+DCC1">>, <<"U+D803", "U+DC81">>>>, <<<<"U+D803", "U+DCC2">>, <<"U+D803",
      "U+DC82">>>>, <<<<"U+D803", "U+DCC3">>, <<"U+D803", "U+DC83">>>>, <<<<"U+D803", "U+DCC4">>,
      <<"U+D803", "U+DC84">>>>, <<<<"U+D803", "U+DCC5">>, <<"U+D803", "U+DC85">>>>, <<<<"U+D803",
      "U+DCC6">>, <<"U+D803", "U+DC86">>>>, <<<<"U+D803", "U+DCC7">>, <<"U+D803", "U+DC87">>>>,
      <<<<"U+D803", "U+DCC8">>, <<"U+D803", "U+DC88">>>>, <<<<"U+D803", "U+DCC9">>, <<"U+D803",
      "U+DC89">>>>, <<<<"U+D803", "U+DCCA">>, <<"U+D803", "U+DC8A">>>>, <<<<"U+D803", "U+DCCB">>,
      <<"U+D803", "U+DC8B">>>>, <<<<"U+D803", "U+DCCC">>, <<"U+D803", "U+DC8C">>>>, <<<<"U+D803",
      "U+DCCD">>, <<"U+D803", "U+DC8D">>>>, <<<<"U+D803", "U+DCCE">>, <<"U+D803", "U+DC8E">>>>,
      <<<<"U+D803", "U+DCCF">>, <<"U+D803", "U+DC8F">>>>, <<<<"U+D803", "U+DCD0">>, <<"U+D803",
      "U+DC90">>>>, <<<<"U+D803", "U+DCD1">>, <<"U+D803", "U+DC91">>>>, <<<<"U+D803", "U+DCD2">>,
      <<"U+D803", "U+DC92">>>>, <<<<"U+D803", "U+DCD3">>, <<"U+D803", "U+DC93">>>>, <<<<"U+D803",
      "U+DCD4">>, <<"U+D803", "U+DC94">>>>, <<<<"U+D803", "U+DCD5">>, <<"U+D803", "U+DC95">>>>,
      <<<<"U+D803", "U+DCD6">>, <<"U+D803", "U+DC96">>>>, <<<<"U+D803", "U+DCD7">>, <<"U+D803",
      "U+DC97">>>>, <<<<"U+D803", "U+DCD8">>, <<"U+D803", "U+DC98">>>>, <<<<"U+D803", "U+DCD9">>,
      <<"U+D803", "U+DC99">>>>, <<<<"U+D803", "U+DCDA">>, <<"U+D803", "U+DC9A">>>>, <<<<"U+D803",
      "U+DCDB">>, <<"U+D803", "U+DC9B">>>>, <<<<"U+D803", "U+DCDC">>, <<"U+D803", "U+DC9C">>>>,
      <<<<"U+D803", "U+DCDD">>, <<"U+D803", "U+DC9D">>>>, <<<<"U+D803", "U+DCDE">>, <<"U+D803",
      "U+DC9E">>>>, <<<<"U+D803", "U+DCDF">>, <<"U+D803", "U+DC9F">>>>, <<<<"U+D803", "U+DCE0">>,
      <<"U+D803", "U+DCA0">>>>, <<<<"U+D803", "U+DCE1">>, <<"U+D803", "U+DCA1">>>>, <<<<"U+D803",
      "U+DCE2">>, <<"U+D803", "U+DCA2">>>>, <<<<"U+D803", "U+DCE3">>, <<"U+D803", "U+DCA3">>>>,
      <<<<"U+D803", "U+DCE4">>, <<"U+D803", "U+DCA4">>>>, <<<<"U+D803", "U+DCE5">>, <<"U+D803",
      "U+DCA5">>>>, <<<<"U+D803", "U+DCE6">>, <<"U+D803", "U+DCA6">>>>, <<<<"U+D803", "U+DCE7">>,
      <<"U+D803", "U+DCA7">>>>, <<<<"U+D803", "U+DCE8">>, <<"U+D803", "U+DCA8">>>>, <<<<"U+D803",
      "U+DCE9">>, <<"U+D803", "U+DCA9">>>>, <<<<"U+D803", "U+DCEA">>, <<"U+D803", "U+DCAA">>>>,
      <<<<"U+D803", "U+DCEB">>, <<"U+D803", "U+DCAB">>>>, <<<<"U+D803", "U+DCEC">>, <<"U+D803",
      "U+DCAC">>>>, <<<<"U+D803", "U+DCED">>, <<"U+D803", "U+DCAD">>>>, <<<<"U+D803", "U+DCEE">>,
      <<"U+D803", "U+DCAE">>>>, <<<<"U+D803", "U+DCEF">>, <<"U+D803", "U+DCAF">>>>, <<<<"U+D803",
      "U+DCF0">>, <<"U+D803", "U+DCB0">>>>, <<<<"U+D803", "U+DCF1">>, <<"U+D803", "U+DCB1">>>>,
      <<<<"U+D803", "U+DCF2">>, <<"U+D803", "U+DCB2">>>>, <<<<"U+D803", "U+DD70">>, <<"U+D803",
      "U+DD50">>>>, <<<<"U+D803", "U+DD71">>, <<"U+D803", "U+DD51">>>>, <<<<"U+D803", "U+DD72">>,
      <<"U+D803", "U+DD52">>>>, <<<<"U+D803", "U+DD73">>, <<"U+D803", "U+DD53">>>>, <<<<"U+D803",
      "U+DD74">>, <<"U+D803", "U+DD54">>>>, <<<<"U+D803", "U+DD75">>, <<"U+D803", "U+DD55">>>>,
      <<<<"U+D803", "U+DD76">>, <<"U+D803", "U+DD56">>>>, <<<<"U+D803", "U+DD77">>, <<"U+D803",
      "U+DD57">>>>, <<<<"U+D803", "U+DD78">>, <<"U+D803", "U+DD58">>>>, <<<<"U+D803", "U+DD79">>,
      <<"U+D803", "U+DD59">>>>, <<<<"U+D803", "U+DD7A">>, <<"U+D803", "U+DD5A">>>>, <<<<"U+D803",
      "U+DD7B">>, <<"U+D803", "U+DD5B">>>>, <<<<"U+D803", "U+DD7C">>, <<"U+D803", "U+DD5C">>>>,
      <<<<"U+D803", "U+DD7D">>, <<"U+D803", "U+DD5D">>>>, <<<<"U+D803", "U+DD7E">>, <<"U+D803",
      "U+DD5E">>>>, <<<<"U+D803", "U+DD7F">>, <<"U+D803", "U+DD5F">>>>, <<<<"U+D803", "U+DD80">>,
      <<"U+D803", "U+DD60">>>>, <<<<"U+D803", "U+DD81">>, <<"U+D803", "U+DD61">>>>, <<<<"U+D803",
      "U+DD82">>, <<"U+D803", "U+DD62">>>>, <<<<"U+D803", "U+DD83">>, <<"U+D803", "U+DD63">>>>,
      <<<<"U+D803", "U+DD84">>, <<"U+D803", "U+DD64">>>>, <<<<"U+D803", "U+DD85">>, <<"U+D803",
      "U+DD65">>>>, <<<<"U+D806", "U+DCC0">>, <<"U+D806", "U+DCA0">>>>, <<<<"U+D806", "U+DCC1">>,
      <<"U+D806", "U+DCA1">>>>, <<<<"U+D806", "U+DCC2">>, <<"U+D806", "U+DCA2">>>>, <<<<"U+D806",
      "U+DCC3">>, <<"U+D806", "U+DCA3">>>>, <<<<"U+D806", "U+DCC4">>, <<"U+D806", "U+DCA4">>>>,
      <<<<"U+D806", "U+DCC5">>, <<"U+D806", "U+DCA5">>>>, <<<<"U+D806", "U+DCC6">>, <<"U+D806",
      "U+DCA6">>>>, <<<<"U+D806", "U+DCC7">>, <<"U+D806", "U+DCA7">>>>, <<<<"U+D806", "U+DCC8">>,
      <<"U+D806", "U+DCA8">>>>, <<<<"U+D806", "U+DCC9">>, <<"U+D806", "U+DCA9">>>>, <<<<"U+D806",
      "U+DCCA">>, <<"U+D806", "U+DCAA">>>>, <<<<"U+D806", "U+DCCB">>, <<"U+D806", "U+DCAB">>>>,
      <<<<"U+D806", "U+DCCC">>, <<"U+D806", "U+DCAC">>>>, <<<<"U+D806", "U+DCCD">>, <<"U+D806",
      "U+DCAD">>>>, <<<<"U+D806", "U+DCCE">>, <<"U+D806", "U+DCAE">>>>, <<<<"U+D806", "U+DCCF">>,
      <<"U+D806", "U+DCAF">>>>, <<<<"U+D806", "U+DCD0">>, <<"U+D806", "U+DCB0">>>>, <<<<"U+D806",
      "U+DCD1">>, <<"U+D806", "U+DCB1">>>>, <<<<"U+D806", "U+DCD2">>, <<"U+D806", "U+DCB2">>>>,
      <<<<"U+D806", "U+DCD3">>, <<"U+D806", "U+DCB3">>>>, <<<<"U+D806", "U+DCD4">>, <<"U+D806",
      "U+DCB4">>>>, <<<<"U+D806", "U+DCD5">>, <<"U+D806", "U+DCB5">>>>, <<<<"U+D806", "U+DCD6">>,
      <<"U+D806", "U+DCB6">>>>, <<<<"U+D806", "U+DCD7">>, <<"U+D806", "U+DCB7">>>>, <<<<"U+D806",
      "U+DCD8">>, <<"U+D806", "U+DCB8">>>>, <<<<"U+D806", "U+DCD9">>, <<"U+D806", "U+DCB9">>>>,
      <<<<"U+D806", "U+DCDA">>, <<"U+D806", "U+DCBA">>>>, <<<<"U+D806", "U+DCDB">>, <<"U+D806",
      "U+DCBB">>>>, <<<<"U+D806", "U+DCDC">>, <<"U+D806", "U+DCBC">>>>, <<<<"U+D806", "U+DCDD">>,
      <<"U+D806", "U+DCBD">>>>, <<<<"U+D806", "U+DCDE">>, <<"U+D806", "U+DCBE">>>>, <<<<"U+D806",
      "U+DCDF">>, <<"U+D806", "U+DCBF">>>>, <<<<"U+D81B", "U+DE60">>, <<"U+D81B", "U+DE40">>>>,
      <<<<"U+D81B", "U+DE61">>, <<"U+D81B", "U+DE41">>>>, <<<<"U+D81B", "U+DE62">>, <<"U+D81B",
      "U+DE42">>>>, <<<<"U+D81B", "U+DE63">>, <<"U+D81B", "U+DE43">>>>, <<<<"U+D81B", "U+DE64">>,
      <<"U+D81B", "U+DE44">>>>, <<<<"U+D81B", "U+DE65">>, <<"U+D81B", "U+DE45">>>>, <<<<"U+D81B",
      "U+DE66">>, <<"U+D81B", "U+DE46">>>>, <<<<"U+D81B", "U+DE67">>, <<"U+D81B", "U+DE47">>>>,
      <<<<"U+D81B", "U+DE68">>, <<"U+D81B", "U+DE48">>>>, <<<<"U+D81B", "U+DE69">>, <<"U+D81B",
      "U+DE49">>>>, <<<<"U+D81B", "U+DE6A">>, <<"U+D81B", "U+DE4A">>>>, <<<<"U+D81B", "U+DE6B">>,
      <<"U+D81B", "U+DE4B">>>>, <<<<"U+D81B", "U+DE6C">>, <<"U+D81B", "U+DE4C">>>>, <<<<"U+D81B",
      "U+DE6D">>, <<"U+D81B", "U+DE4D">>>>, <<<<"U+D81B", "U+DE6E">>, <<"U+D81B", "U+DE4E">>>>,
      <<<<"U+D81B", "U+DE6F">>, <<"U+D81B", "U+DE4F">>>>, <<<<"U+D81B", "U+DE70">>, <<"U+D81B",
      "U+DE50">>>>, <<<<"U+D81B", "U+DE71">>, <<"U+D81B", "U+DE51">>>>, <<<<"U+D81B", "U+DE72">>,
      <<"U+D81B", "U+DE52">>>>, <<<<"U+D81B", "U+DE73">>, <<"U+D81B", "U+DE53">>>>, <<<<"U+D81B",
      "U+DE74">>, <<"U+D81B", "U+DE54">>>>, <<<<"U+D81B", "U+DE75">>, <<"U+D81B", "U+DE55">>>>,
      <<<<"U+D81B", "U+DE76">>, <<"U+D81B", "U+DE56">>>>, <<<<"U+D81B", "U+DE77">>, <<"U+D81B",
      "U+DE57">>>>, <<<<"U+D81B", "U+DE78">>, <<"U+D81B", "U+DE58">>>>, <<<<"U+D81B", "U+DE79">>,
      <<"U+D81B", "U+DE59">>>>, <<<<"U+D81B", "U+DE7A">>, <<"U+D81B", "U+DE5A">>>>, <<<<"U+D81B",
      "U+DE7B">>, <<"U+D81B", "U+DE5B">>>>, <<<<"U+D81B", "U+DE7C">>, <<"U+D81B", "U+DE5C">>>>,
      <<<<"U+D81B", "U+DE7D">>, <<"U+D81B", "U+DE5D">>>>, <<<<"U+D81B", "U+DE7E">>, <<"U+D81B",
      "U+DE5E">>>>, <<<<"U+D81B", "U+DE7F">>, <<"U+D81B", "U+DE5F">>>>, <<<<"U+D81B", "U+DEBB">>,
      <<"U+D81B", "U+DEA0">>>>, <<<<"U+D81B", "U+DEBC">>, <<"U+D81B", "U+DEA1">>>>, <<<<"U+D81B",
      "U+DEBD">>, <<"U+D81B", "U+DEA2">>>>, <<<<"U+D81B", "U+DEBE">>, <<"U+D81B", "U+DEA3">>>>,
      <<<<"U+D81B", "U+DEBF">>, <<"U+D81B", "U+DEA4">>>>, <<<<"U+D81B", "U+DEC0">>, <<"U+D81B",
      "U+DEA5">>>>, <<<<"U+D81B", "U+DEC1">>, <<"U+D81B", "U+DEA6">>>>, <<<<"U+D81B", "U+DEC2">>,
      <<"U+D81B", "U+DEA7">>>>, <<<<"U+D81B", "U+DEC3">>, <<"U+D81B", "U+DEA8">>>>, <<<<"U+D81B",
      "U+DEC4">>, <<"U+D81B", "U+DEA9">>>>, <<<<"U+D81B", "U+DEC5">>, <<"U+D81B", "U+DEAA">>>>,
      <<<<"U+D81B", "U+DEC6">>, <<"U+D81B", "U+DEAB">>>>, <<<<"U+D81B", "U+DEC7">>, <<"U+D81B",
      "U+DEAC">>>>, <<<<"U+D81B", "U+DEC8">>, <<"U+D81B", "U+DEAD">>>>, <<<<"U+D81B", "U+DEC9">>,
      <<"U+D81B", "U+DEAE">>>>, <<<<"U+D81B", "U+DECA">>, <<"U+D81B", "U+DEAF">>>>, <<<<"U+D81B",
      "U+DECB">>, <<"U+D81B", "U+DEB0">>>>, <<<<"U+D81B", "U+DECC">>, <<"U+D81B", "U+DEB1">>>>,
      <<<<"U+D81B", "U+DECD">>, <<"U+D81B", "U+DEB2">>>>, <<<<"U+D81B", "U+DECE">>, <<"U+D81B",
      "U+DEB3">>>>, <<<<"U+D81B", "U+DECF">>, <<"U+D81B", "U+DEB4">>>>, <<<<"U+D81B", "U+DED0">>,
      <<"U+D81B", "U+DEB5">>>>, <<<<"U+D81B", "U+DED1">>, <<"U+D81B", "U+DEB6">>>>, <<<<"U+D81B",
      "U+DED2">>, <<"U+D81B", "U+DEB7">>>>, <<<<"U+D81B", "U+DED3">>, <<"U+D81B", "U+DEB8">>>>,
      <<<<"U+D83A", "U+DD22">>, <<"U+D83A", "U+DD00">>>>, <<<<"U+D83A", "U+DD23">>, <<"U+D83A",
      "U+DD01">>>>, <<<<"U+D83A", "U+DD24">>, <<"U+D83A", "U+DD02">>>>, <<<<"U+D83A", "U+DD25">>,
      <<"U+D83A", "U+DD03">>>>, <<<<"U+D83A", "U+DD26">>, <<"U+D83A", "U+DD04">>>>, <<<<"U+D83A",
      "U+DD27">>, <<"U+D83A", "U+DD05">>>>, <<<<"U+D83A", "U+DD28">>, <<"U+D83A", "U+DD06">>>>,
      <<<<"U+D83A", "U+DD29">>, <<"U+D83A", "U+DD07">>>>, <<<<"U+D83A", "U+DD2A">>, <<"U+D83A",
      "U+DD08">>>>, <<<<"U+D83A", "U+DD2B">>, <<"U+D83A", "U+DD09">>>>, <<<<"U+D83A", "U+DD2C">>,
      <<"U+D83A", "U+DD0A">>>>, <<<<"U+D83A", "U+DD2D">>, <<"U+D83A", "U+DD0B">>>>, <<<<"U+D83A",
      "U+DD2E">>, <<"U+D83A", "U+DD0C">>>>, <<<<"U+D83A", "U+DD2F">>, <<"U+D83A", "U+DD0D">>>>,
      <<<<"U+D83A", "U+DD30">>, <<"U+D83A", "U+DD0E">>>>, <<<<"U+D83A", "U+DD31">>, <<"U+D83A",
      "U+DD0F">>>>, <<<<"U+D83A", "U+DD32">>, <<"U+D83A", "U+DD10">>>>, <<<<"U+D83A", "U+DD33">>,
      <<"U+D83A", "U+DD11">>>>, <<<<"U+D83A", "U+DD34">>, <<"U+D83A", "U+DD12">>>>, <<<<"U+D83A",
      "U+DD35">>, <<"U+D83A", "U+DD13">>>>, <<<<"U+D83A", "U+DD36">>, <<"U+D83A", "U+DD14">>>>,
      <<<<"U+D83A", "U+DD37">>, <<"U+D83A", "U+DD15">>>>, <<<<"U+D83A", "U+DD38">>, <<"U+D83A",
      "U+DD16">>>>, <<<<"U+D83A", "U+DD39">>, <<"U+D83A", "U+DD17">>>>, <<<<"U+D83A", "U+DD3A">>,
      <<"U+D83A", "U+DD18">>>>, <<<<"U+D83A", "U+DD3B">>, <<"U+D83A", "U+DD19">>>>, <<<<"U+D83A",
      "U+DD3C">>, <<"U+D83A", "U+DD1A">>>>, <<<<"U+D83A", "U+DD3D">>, <<"U+D83A", "U+DD1B">>>>,
      <<<<"U+D83A", "U+DD3E">>, <<"U+D83A", "U+DD1C">>>>, <<<<"U+D83A", "U+DD3F">>, <<"U+D83A",
      "U+DD1D">>>>, <<<<"U+D83A", "U+DD40">>, <<"U+D83A", "U+DD1E">>>>, <<<<"U+D83A", "U+DD41">>,
      <<"U+D83A", "U+DD1F">>>>, <<<<"U+D83A", "U+DD42">>, <<"U+D83A", "U+DD20">>>>, <<<<"U+D83A",
      "U+DD43">>, <<"U+D83A", "U+DD21">>>> }

UpperOfSurrogates ==
    [c \in {p[1] : p \in UpperSurrogatePairs} |->
        (CHOOSE p \in UpperSurrogatePairs : p[1] = c)[2]]

\* the line named by the first two characters alone, whatever the flag
lineNameOriginOnly(routeId, useDestination) ==
    LET code == SubSeq(routeId, 1, IF Len(routeId) < 2 THEN Len(routeId) ELSE 2)
        up == [i \in 1..Len(code) |->
                  IF code[i] \in DOMAIN UpperOf THEN UpperOf[code[i]][1] ELSE code[i]]
    IN  IF up \in DOMAIN LINE_NAMES THEN LINE_NAMES[up] ELSE routeId

\* String.prototype.toUpperCase: each character is replaced by its upper case,
\* which may be longer than one code unit; a surrogate that is not half of a
\* pair is left as it is
RECURSIVE toUpperCase(_)
toUpperCase(s) ==
    IF s = <<>> THEN <<>>
    ELSE IF Len(s) >= 2 /\ <<s[1], s[2]>> \in DOMAIN UpperOfSurrogates
    THEN UpperOfSurrogates[<<s[1], s[2]>>] \o toUpperCase(Tail(Tail(s)))
    ELSE (IF Head(s) \in DOMAIN UpperOf THEN UpperOf[Head(s)] ELSE <<Head(s)>>)
             \o toUpperCase(Tail(s))

\* s.split('-')[0]: the text before the first hyphen (all of s when it has none)
RECURSIVE BeforeHyphen(_)
BeforeHyphen(s) ==
    IF s = <<>> \/ Head(s) = "-" THEN <<>> ELSE <<Head(s)>> \o BeforeHyphen(Tail(s))

\* s.slice(a, b) for 0 <= a <= b: the characters at JS positions [a, b)
slice(s, a, b) == SubSeq(s, a + 1, Min(b, Len(s)))

\* the generic placeholder 'Train'
Train == <<"T", "r", "a", "i", "n">>

lineName(routeId, useDestination) ==
    IF routeId = <<>> THEN Train
    ELSE LET code == BeforeHyphen(toUpperCase(routeId))
             dst == slice(code, 2, 4)
             org == slice(code, 0, 2)
         IN  IF useDestination /\ Len(code) >= 4 /\ dst \in DOMAIN LINE_NAMES
             THEN LINE_NAMES[dst]
             ELSE IF org \in DOMAIN LINE_NAMES THEN LINE_NAMES[org] ELSE routeId

---------------------------------------------------------------------------
(* getDepartures of src/server.js *)

\* stu.stopTimeProperties?.assignedStopId || stu.stopId
effectiveStopId(stu) == IF stu.assignedStopId # "" THEN stu.assignedStopId ELSE stu.stopId

\* the test of the stop-matching loop
StopMatches(config, stu) ==
    stu.stopId \in config.stopIds \/ effectiveStopId(stu) \in config.stopIds

\* position of the first matching stop time update (targetIdx + 1), 0 when none matches
targetIdx(config, stus) ==
    IF \E i \in 1..Len(stus) : StopMatches(config, stus[i])
    THEN CHOOSE i \in 1..Len(stus) :
             /\ StopMatches(config, stus[i])
             /\ \A j \in 1..(i - 1) : ~StopMatches(config, stus[j])
    ELSE 0

\* the platform looked up from the scheduled stop, as in the STOP_CONFIG variant
targetStopIdRaw(stu) == stu.stopId

\* the stop id kept for the platform lookup
targetStopId(stu) == effectiveStopId(stu)

\* first position inspected by the downstream check, for a target at position idx
DownstreamFrom(idx) == idx + 1

\* tu.stopTimeUpdate.slice(targetIdx + 1).some(s => requiredStopIds.includes(s.stopId))
hasDownstream(config, stus, idx) ==
    \E j \in DownstreamFrom(idx)..Len(stus) : stus[j].stopId \in config.requiredStopIds

\* tu.trip?.tripId of a trip update without trip id: undefined or null, apart
\* from the empty string a decoded feed carries. They are falsy, and three
\* different keys of a Set.
UndefinedId == "(undefined)"
NullId == "(null)"
Falsy(tripId) == tripId \in {"", UndefinedId, NullId}

\* if (tripId && seenTripIds.has(tripId)) continue
SeenSkip(tripId, seenTripIds) == ~Falsy(tripId) /\ tripId \in seenTripIds

\* the direction_id filter
DirectionSkipUnknown(config, trip) ==
    config.directionId # NoDirection /\ trip.directionId # config.directionId

DirectionSkip(config, trip) ==
    /\ config.directionId # NoDirection
    /\ trip.directionId # NoDirection
    /\ trip.directionId # config.directionId

\* targetUpdate.departure || targetUpdate.arrival
depOf(stu) == IF stu.departure.present THEN stu.departure ELSE stu.arrival

\* the grace test with <= in place of <
IsPastOrAtGrace(depTimeSec, nowMs) ==
    depTimeSec.kind = "num" /\ depTimeSec.v * 1000 <= nowMs - 60000

\* depTimeSec < now - 60 with now = Date.now() / 1000, in milliseconds
IsPast(depTimeSec, nowMs) ==
    depTimeSec.kind = "num" /\ depTimeSec.v * 1000 < nowMs - 60000

\* isNaN(depTimeSec) || depTimeSec < now - 60
TimeSkip(depTimeSec, nowMs) == depTimeSec.kind = "nan" \/ IsPast(depTimeSec, nowMs)

\* Math.round((depTimeSec - now) / 60): the nearest integer, halves rounded up
minutesAway(depTimeSec, nowMs) ==
    IF depTimeSec.kind = "num"
    THEN NumOf((depTimeSec.v * 1000 - nowMs + 30000) \div 60000)
    ELSE depTimeSec

\* PLATFORM_NAMES[targetStopId] when that is truthy, "" when the result carries
\* no platform; a stop id that names a property of Object.prototype gives that
\* property
platformOf(stopId) ==
    IF stopId \in DOMAIN PLATFORM_NAMES THEN PLATFORM_NAMES[stopId]
    ELSE IF stopId \in ObjectPrototypeNames THEN InheritedValue(stopId)
    ELSE ""

\* a loop that never records the trip ids it has accepted
MarkSeenNothing(tripId, seenTripIds) == seenTripIds

\* if (tripId) seenTripIds.add(tripId)
MarkSeen(tripId, seenTripIds) ==
    IF ~Falsy(tripId) THEN seenTripIds \cup {tripId} ELSE seenTripIds

\* typeof dep.time === 'object' ? dep.time.toNumber() : Number(dep.time) throws
ConversionThrows(time) == time.kind = "null"

\* One iteration of the loop over feed.entity, on the entity at position i.
\* st = [results, seenTripIds, threw]; threw is set when the iteration throws,
\* which ends the loop and the call. The field entity of a result is not part
\* of the JS object: it records which feed entity the result was built from.
ScanEntity(config, nowMs, st, entity, i) ==
    IF st.threw THEN st
    ELSE IF ~entity.hasTu \/ Len(entity.stus) = 0 THEN st
    ELSE IF SeenSkip(entity.trip.tripId, st.seenTripIds) THEN st
    ELSE IF DirectionSkip(config, entity.trip) THEN st
    ELSE IF StopIdsThrows(config) THEN [st EXCEPT !.threw = TRUE]
    ELSE LET idx == targetIdx(config, entity.stus) IN
         IF idx = 0 THEN st
         ELSE IF config.hasRequired /\ ~hasDownstream(config, entity.stus, idx) THEN st
         ELSE LET dep == depOf(entity.stus[idx]) IN
              IF ~dep.present THEN st
              ELSE IF ConversionThrows(dep.time) THEN [st EXCEPT !.threw = TRUE]
              ELSE IF TimeSkip(dep.time, nowMs) THEN st
              ELSE [results |-> Append(st.results,
                        [line |-> lineName(entity.trip.routeId, config.useDestination),
                         minutes |-> minutesAway(dep.time, nowMs),
                         departureTs |-> dep.time,
                         platform |-> platformOf(targetStopId(entity.stus[idx])),
                         entity |-> i]),
                    seenTripIds |-> MarkSeen(entity.trip.tripId, st.seenTripIds),
                    threw |-> FALSE]

\* the loop over feed.entity, from position i on
RECURSIVE Scan(_, _, _, _, _)
Scan(config, nowMs, feed, i, st) ==
    IF i > Len(feed) THEN st
    ELSE Scan(config, nowMs, feed, i + 1, ScanEntity(config, nowMs, st, feed[i], i))

\* the comparator (a, b) => a.departureTs - b.departureTs, as the sign the sort
\* sees: Infinity - Infinity is NaN, which Array.prototype.sort reads as 0
compareTs(a, b) ==
    IF a.departureTs.kind = "inf" THEN (IF b.departureTs.kind = "inf" THEN 0 ELSE 1)
    ELSE IF b.departureTs.kind = "inf" THEN -1
    ELSE a.departureTs.v - b.departureTs.v

\* x placed after every element that does not compare greater than it
RECURSIVE InsertSorted(_, _)
InsertSorted(s, x) ==
    IF s = <<>> THEN <<x>>
    ELSE IF compareTs(Head(s), x) > 0 THEN <<x>> \o s
    ELSE <<Head(s)>> \o InsertSorted(Tail(s), x)

\* the results left in feed order
NoSort(s) == s

\* results.sort(comparator): Array.prototype.sort is stable
RECURSIVE sort(_)
sort(s) == IF s = <<>> THEN <<>> ELSE InsertSorted(sort(SubSeq(s, 1, Len(s) - 1)), s[Len(s)])

\* the cap of results.slice(0, 5)
Cap == 5

\* const results = []; const seenTripIds = new Set()
ScanStart == [results |-> <<>>, seenTripIds |-> {}, threw |-> FALSE]

\* the results accepted by the loop, before sort and slice
accepted(feed, mode, nowMs) ==
    Scan(configOf(MODES, mode), nowMs, feed, 1, ScanStart).results

\* the call throws instead of returning
getDeparturesThrows(feed, mode, nowMs) ==
    hasConfig(MODES, mode) /\ Scan(configOf(MODES, mode), nowMs, feed, 1, ScanStart).threw

\* the results cut to the cap before they are sorted
getDeparturesCutFirst(feed, mode, nowMs) ==
    IF ~hasConfig(MODES, mode) THEN <<>>
    ELSE LET results == accepted(feed, mode, nowMs)
         IN  sort(SubSeq(results, 1, Min(Cap, Len(results))))

\* the value the call returns when it does not throw
getDepartures(feed, mode, nowMs) ==
    IF ~hasConfig(MODES, mode) THEN <<>>
    ELSE LET results == sort(accepted(feed, mode, nowMs))
         IN  SubSeq(results, 1, Min(Cap, Len(results)))

---------------------------------------------------------------------------
(* The STOP_CONFIG variant of the server, src/unnamed/part_000 lines 1-205 *)

STOP_CONFIG ==
       "albion" :> [stopIds |-> {"600365", "600366", "600368"},
                    directionId |-> 0,
                    hasRequired |-> FALSE, requiredStopIds |-> {}]
    @@ "to-milton" :> [stopIds |-> {"600028", "600029"},
                    directionId |-> NoDirection,
                    hasRequired |-> TRUE, requiredStopIds |-> {"600279", "600280"}]
    @@ "to-albion" :> [stopIds |-> {"600028", "600029"},
                    directionId |-> NoDirection,
                    hasRequired |-> TRUE,
                    requiredStopIds |-> {"600365", "600366", "600368"}]

PLATFORM_NAMES_SC ==
       "600028" :> "7" @@ "600029" :> "8" @@ "600365" :> "1" @@ "600366" :> "2"
    @@ "600368" :> "3" @@ "600279" :> "1" @@ "600280" :> "2"

ROUTE_SEGMENTS ==
       <<"B", "D">> :> <<"B", "e", "e", "n", "l", "e", "i", "g", "h">>
    @@ <<"B", "N">> :> <<"B", "r", "i", "s", "b", "a", "n", "e">>
    @@ <<"B", "R">> :> <<"B", "r", "i", "s", "b", "a", "n", "e", " ", "C", "i", "t", "y">>
    @@ <<"C", "A">> :> <<"C", "a", "b", "o", "o", "l", "t", "u", "r", "e">>
    @@ <<"C", "L">> :> <<"C", "l", "e", "v", "e", "l", "a", "n", "d">>
    @@ <<"D", "B">> :> <<"D", "o", "o", "m", "b", "e", "n">>
    @@ <<"F", "G">> :> <<"F", "e", "r", "n", "y", " ", "G", "r", "o", "v", "e">>
    @@ <<"G", "Y">> :> <<"G", "y", "m", "p", "i", "e">>
    @@ <<"I", "P">> :> <<"I", "p", "s", "w", "i", "c", "h">>
    @@ <<"N", "A">> :> <<"N", "a", "m", "b", "o", "u", "r", "/", "A", "i", "r", "p", "o", "r", "t">>
    @@ <<"R", "P">> :> <<"R", "e", "d", "c", "l", "i", "f", "f", "e">>
    @@ <<"R", "W">> :> <<"R", "o", "s", "e", "w", "o", "o", "d">>
    @@ <<"S", "H">> :> <<"S", "h", "o", "r", "n", "c", "l", "i", "f", "f", "e">>
    @@ <<"S", "P">> :> <<"S", "p", "r", "i", "n", "g", "f", "i", "e", "l", "d">>
    @@ <<"V", "L">> :> <<"V", "a", "r", "s", "i", "t", "y", " ", "L", "a", "k", "e", "s">>
    @@ <<"A", "I">> :> <<"A", "i", "r", "p", "o", "r", "t">>
    @@ <<"G", "C">> :> <<"G", "o", "l", "d", " ", "C", "o", "a", "s", "t">>

\* the characters of the class [A-Z]
UpperLetters ==
    {"A", "B", "C", "D", "E", "F", "G", "H", "I", "J", "K", "L", "M",
     "N", "O", "P", "Q", "R", "S", "T", "U", "V", "W", "X", "Y", "Z"}

\* /^[A-Z]{4,6}-/.test(id)
MatchesOrigDest(id) ==
    \E k \in 4..6 :
        /\ Len(id) > k
        /\ \A i \in 1..k : id[i] \in UpperLetters
        /\ id[k + 1] = "-"

friendlyRoute(routeId) ==
    IF routeId = <<>> THEN Train
    ELSE LET id == toUpperCase(routeId)
             code == BeforeHyphen(id)
             org == slice(code, 0, 2)
             dst == slice(code, 2, 4)
             hasOrig == org \in DOMAIN ROUTE_SEGMENTS
             hasDest == dst \in DOMAIN ROUTE_SEGMENTS
         IN  IF ~MatchesOrigDest(id) THEN routeId
             ELSE IF Len(code) = 4 /\ hasOrig /\ hasDest
                  THEN ROUTE_SEGMENTS[org] \o <<" ", "↔", " ">> \o ROUTE_SEGMENTS[dst]
             ELSE IF hasDest THEN ROUTE_SEGMENTS[dst]
             ELSE IF Len(code) = 4 /\ hasOrig THEN ROUTE_SEGMENTS[org]
             ELSE routeId

\* the stop-matching loop of the variant looks at the raw stopId only
targetIdxSC(config, stus) ==
    IF \E i \in 1..Len(stus) : stus[i].stopId \in config.stopIds
    THEN CHOOSE i \in 1..Len(stus) :
             /\ stus[i].stopId \in config.stopIds
             /\ \A j \in 1..(i - 1) : stus[j].stopId \notin config.stopIds
    ELSE 0

\* config.requiredStopIds.some(id => tripStops.includes(id)), tripStops being
\* the stopIds of the whole stopTimeUpdate array
hasRequiredSC(config, stus) ==
    \E j \in 1..Len(stus) : stus[j].stopId \in config.requiredStopIds

\* new Date(depTimeSec * 1000).toLocaleTimeString('en-AU', {hour, minute, hour12: false})
\* in a process whose local time is UTC + tzOffsetSec. With hour12: false the
\* en-AU pattern counts the hours 1 to 24: the hour after local midnight is
\* written 24, not 00.
scheduledTimeOf(depTimeSec, tzOffsetSec) ==
    IF depTimeSec.kind = "num"
    THEN LET local == (depTimeSec.v + tzOffsetSec) % 86400
             hour == local \div 3600
         IN  [valid |-> TRUE, hh |-> IF hour = 0 THEN 24 ELSE hour,
              mm |-> (local % 3600) \div 60]
    ELSE [valid |-> FALSE, hh |-> 0, mm |-> 0]

\* PLATFORM_NAMES[targetStopId] || '?'
platformOfSC(stopId) ==
    IF stopId \in DOMAIN PLATFORM_NAMES_SC THEN PLATFORM_NAMES_SC[stopId]
    ELSE IF stopId \in ObjectPrototypeNames THEN InheritedValue(stopId)
    ELSE "?"

\* One iteration of the variant's loop. tripId is tested and added to
\* seenTripIds whether or not it is present: undefined, null and '' are keys
\* of the Set like any trip id.
ScanEntitySC(config, nowMs, tzOffsetSec, st, entity, i) ==
    IF st.threw THEN st
    ELSE IF ~entity.hasTu \/ Len(entity.stus) = 0 THEN st
    ELSE IF entity.trip.tripId \in st.seenTripIds THEN st
    ELSE IF DirectionSkip(config, entity.trip) THEN st
    ELSE IF StopIdsThrows(config) THEN [st EXCEPT !.threw = TRUE]
    ELSE LET idx == targetIdxSC(config, entity.stus) IN
         IF idx = 0 THEN st
         ELSE IF config.hasRequired /\ ~hasRequiredSC(config, entity.stus) THEN st
         ELSE LET dep == depOf(entity.stus[idx]) IN
              IF ~dep.present THEN st
              ELSE IF ConversionThrows(dep.time) THEN [st EXCEPT !.threw = TRUE]
              ELSE IF TimeSkip(dep.time, nowMs) THEN st
              ELSE [results |-> Append(st.results,
                        [tripId |-> entity.trip.tripId,
                         minutes |-> minutesAway(dep.time, nowMs),
                         scheduledTime |-> scheduledTimeOf(dep.time, tzOffsetSec),
                         headsign |-> IF entity.trip.headsign # <<>>
                                      THEN entity.trip.headsign
                                      ELSE friendlyRoute(entity.trip.routeId),
                         routeId |-> friendlyRoute(entity.trip.routeId),
                         platform |-> platformOfSC(entity.stus[idx].stopId),
                         departureTs |-> dep.time,
                         entity |-> i]),
                    seenTripIds |-> st.seenTripIds \cup {entity.trip.tripId},
                    threw |-> FALSE]

RECURSIVE ScanSC(_, _, _, _, _, _)
ScanSC(config, nowMs, tzOffsetSec, feed, i, st) ==
    IF i > Len(feed) THEN st
    ELSE ScanSC(config, nowMs, tzOffsetSec, feed, i + 1,
                ScanEntitySC(config, nowMs, tzOffsetSec, st, feed[i], i))

\* the cap of results.slice(0, 3)
CapSC == 3

\* ({ tripId, departureTs, ...rest }) => rest; the field entity records the
\* feed entity the result was built from and is not part of the JS object
Rest(r) == [minutes |-> r.minutes, scheduledTime |-> r.scheduledTime,
            headsign |-> r.headsign, routeId |-> r.routeId,
            platform |-> r.platform, entity |-> r.entity]

getDeparturesSCThrows(feed, mode, nowMs, tzOffsetSec) ==
    /\ hasConfig(STOP_CONFIG, mode)
    /\ ScanSC(configOf(STOP_CONFIG, mode), nowMs, tzOffsetSec, feed, 1, ScanStart).threw

getDeparturesSC(feed, mode, nowMs, tzOffsetSec) ==
    IF ~hasConfig(STOP_CONFIG, mode) THEN <<>>
    ELSE LET results == sort(ScanSC(configOf(STOP_CONFIG, mode), nowMs, tzOffsetSec, feed, 1,
                                    ScanStart).results)
             top == SubSeq(results, 1, Min(CapSC, Len(results)))
         IN  [k \in 1..Len(top) |-> Rest(top[k])]

---------------------------------------------------------------------------
(* Feeds handed to the resolver *)

SeqsUpTo(S, n) == UNION {[1..k -> S] : k \in 0..n}

NoTrip == [tripId |-> "", directionId |-> NoDirection, routeId |-> <<>>, headsign |-> <<>>]
Trip(tripId, directionId, routeId) ==
    [tripId |-> tripId, directionId |-> directionId, routeId |-> routeId, headsign |-> <<>>]

Stu(stopId, assignedStopId, departure, arrival) ==
    [stopId |-> stopId, assignedStopId |-> assignedStopId,
     departure |-> departure, arrival |-> arrival]

\* a feed entity with a tripUpdate, and one without (a vehicle position or an alert)
Entity(trip, stus) == [hasTu |-> TRUE, trip |-> trip, stus |-> stus]
NoTripUpdate == [hasTu |-> FALSE, trip |-> NoTrip, stus |-> <<>>]

RPSP == <<"R", "P", "S", "P", "-", "4", "4", "8", "4">>
RouteIds ==
    { <<>>, RPSP, <<"r", "p", "s", "p", "-", "1">>, <<"Z", "Z", "Z", "Z", "-", "1">>,
      <<"I", "P">>, <<"B", "R", "I", "P", "C", "A", "-", "7">>,
      <<"r", "ß", "p", "-", "1">>, <<"é", "p", "s", "p", "-", "1">>,
      <<"U+0131", "p">>, <<"r", "p", "U+017F", "p", "-", "1">>,
      <<"U+FB01", "s", "p", "-", "1">>, <<"U+D801", "U+DC28", "s", "p">> }

\* A service calling at Albion, Roma Street and Milton in that order, with the
\* same departure and arrival events at each call.
Journey(tripId, directionId, routeId, departure, arrival) ==
    Entity(Trip(tripId, directionId, routeId),
           << Stu("600365", "", departure, arrival),
              Stu("600029", "", departure, arrival),
              Stu("600279", "", departure, arrival) >>)

\* Timetable feeds: up to MaxEntities journeys, some sharing a trip id, some
\* without one, departing at different times.
TimetableTrips ==
    { Journey("", 0, RPSP, EventAt(NumOf(240)), NoEvent),
      Journey("T1", 0, RPSP, EventAt(NumOf(180)), NoEvent),
      Journey("T1", 0, RPSP, EventAt(NumOf(300)), NoEvent),
      Journey("T2", 0, RPSP, EventAt(NumOf(240)), NoEvent) }
TimetableFeeds == SeqsUpTo(TimetableTrips, MaxEntities)

\* Feeds of two journeys without trip id, the absence written in each way
AbsentIds == {"", UndefinedId, NullId}
AbsentIdFeeds ==
    { <<Journey(a, 0, RPSP, EventAt(NumOf(300)), NoEvent),
        Journey(b, 0, RPSP, EventAt(NumOf(240)), NoEvent)>> : a, b \in AbsentIds }

\* Stop-pattern feeds: one trip whose stopTimeUpdate array is any sequence of
\* up to MaxStops calls; the call at position k departs at 180 + 60 k.
StopCalls ==
    { <<"600365", "">>, <<"600029", "">>, <<"600279", "">>, <<"600028", "">>,
      <<"600028", "600365">>, <<"600028", "600029">>, <<"600279", "600029">>,
      <<"600365", "600028">>, <<"600365", "__proto__">> }
StopPattern(calls) ==
    Entity(Trip("T1", NoDirection, RPSP),
           [k \in 1..Len(calls) |->
               Stu(calls[k][1], calls[k][2], EventAt(NumOf(180 + 60 * k)), NoEvent)])
StopPatternFeeds == { <<StopPattern(calls)>> : calls \in SeqsUpTo(StopCalls, MaxStops) }

\* Event feeds: one journey with any direction and any departure and arrival
\* event, alone or followed by an ordinary journey.
Events ==
    { NoEvent, EventAt(NumOf(59)), EventAt(NumOf(60)), EventAt(NumOf(61)),
      EventAt(NumOf(200)), EventAt(NaN), EventAt(Infinity), EventAt(Null) }
EventTrips ==
    { Journey("T1", d, RPSP, dep, arr) : d \in {NoDirection, 0, 1}, dep \in Events, arr \in Events }
EventFeeds ==
    { <<e>> : e \in EventTrips }
        \cup { <<e, Journey(t, 0, RPSP, EventAt(NumOf(240)), NoEvent)>> :
                   e \in EventTrips, t \in {"T1", "T2"} }

\* Route feeds: one journey for each route id, and an entity without tripUpdate
RouteFeeds ==
    { <<NoTripUpdate, Journey("T1", 0, r, EventAt(NumOf(200)), NoEvent)>> : r \in RouteIds }

\* Date.now() at the call, in ms: 60 s, 60.5 s and 61 s after epoch second 60
NowChoices == {120000, 120500, 121000}
\* local time offsets of the process: UTC and Brisbane (UTC+10)
TzChoices == {0, 36000}

\* the configured modes, a name that nothing defines, a name Object.prototype defines
ServerModes == DOMAIN MODES \cup {"bogus", "constructor"}
StopConfigModes == DOMAIN STOP_CONFIG \cup {"bogus", "constructor"}

Call(variant, feed, mode, nowMs, tzOffsetSec) ==
    [variant |-> variant, feed |-> feed, mode |-> mode, nowMs |-> nowMs,
     tzOffsetSec |-> tzOffsetSec]

\* the feeds with the instants and local time offsets they are resolved at
FeedsAt ==
    ((TimetableFeeds \cup AbsentIdFeeds \cup StopPatternFeeds) \X {120000} \X {36000})
        \cup ((EventFeeds \cup RouteFeeds) \X NowChoices \X TzChoices)

\* the route ids lineName is called on: every text of up to MaxRouteLen of
\* these characters, and the route ids of the feeds
RouteChars == {"R", "P", "S", "p", "Z", "-", "ß", "U+017F"}
LineRouteIds == SeqsUpTo(RouteChars, MaxRouteLen) \cup RouteIds
LineCall(routeId, useDestination) ==
    [variant |-> "lineName", routeId |-> routeId, useDestination |-> useDestination]

NoCall == Call("none", <<>>, "", 0, 0)
NoReturn == [done |-> FALSE, threw |-> FALSE, value |-> <<>>]

---------------------------------------------------------------------------
(* The feed cache: fetchGTFSRT of src/server.js *)

CACHE_TTL_MS == 15000

\* cache.data = null; a snapshot is named by the fetch that decoded it
NoData == 0
\* cache.inflight = null; a pending promise is named by its fetch
NoPromise == 0

\* the requests received so far, numbered in order of arrival
Reqs == 1..Len(reqs)

\* let cache = { data: null, timestamp: 0, inflight: null }
InitialCache == [data |-> NoData, timestamp |-> 0, inflight |-> NoPromise]

\* a snapshot counted fresh up to and at the time to live
IsFreshAtTtl(c, t) == c.data # NoData /\ t - c.timestamp <= 15000

\* a snapshot counted fresh for half the time to live only
IsFreshHalfTtl(c, t) == c.data # NoData /\ 2 * (t - c.timestamp) < 15000

\* cache.data && now - cache.timestamp < CACHE_TTL_MS
IsFresh(c, t) == c.data # NoData /\ t - c.timestamp < CACHE_TTL_MS

\* fetchGTFSRT without the inflight test, as in the earlier variants of the server
FetchDecisionNoJoin(c, t) == IF IsFresh(c, t) THEN "cached" ELSE "fetch"

\* fetchGTFSRT serving the stale snapshot while a refresh is pending
FetchDecisionServeStale(c, t) ==
    IF IsFresh(c, t) \/ (c.data # NoData /\ c.inflight # NoPromise) THEN "cached"
    ELSE IF c.inflight # NoPromise THEN "join"
    ELSE "fetch"

\* The three ways through fetchGTFSRT: return cache.data, return the pending
\* promise, or start a fetch and return its promise.
FetchDecision(c, t) ==
    IF IsFresh(c, t) THEN "cached"
    ELSE IF c.inflight # NoPromise THEN "join"
    ELSE "fetch"

\* cache.inflight = fetch(...).then(...).catch(...), for the fetch named f
OnStart(c, f) == [c EXCEPT !.inflight = f]

\* a success handler that stores the feed and forgets to stamp it
OnSuccessNoTimestamp(c, f, t) == [data |-> f, timestamp |-> c.timestamp, inflight |-> NoPromise]

\* cache = { data: feed, timestamp: Date.now(), inflight: null }
OnSuccess(c, f, t) == [data |-> f, timestamp |-> t, inflight |-> NoPromise]

\* a failure handler that resets the whole cache
OnFailureEvict(c) == InitialCache

\* a failure handler that rethrows without clearing the pending promise
OnFailureKeepInflight(c) == c

\* .catch(err => { cache.inflight = null; throw err; })
OnFailure(c) == [c EXCEPT !.inflight = NoPromise]

\* The feeds the upstream may answer with once decoded.
UpstreamFeeds ==
    { << Journey("T1", 0, RPSP, EventAt(NumOf(200)), NoEvent) >>,
      << Journey("T1", 0, RPSP, EventAt(NumOf(400)), NoEvent),
         Journey("T2", 1, RPSP, EventAt(NumOf(300)), NoEvent) >> }

\* the ways an upstream fetch fails before its body is read: fetch() rejects,
\* or the status is not ok
ResponseFailures == {"network", "status"}
\* and afterwards: arrayBuffer() rejects, or FeedMessage.decode throws
BodyFailures == {"network", "decode"}

Outstanding(f) == fetches[f].state \in {"request", "body"}
Settled(f) == fetches[f].state \in {"fulfilled", "rejected"}

\* the instants the clock of the server can show
Instants == {120000 + 7500 * k : k \in 0..MaxTicks}

\* getDepartures(feed, mode) on each decoded feed, for each mode name that
\* passes the handler's check and at each instant: whether the call throws,
\* and what it returns when it does not
Resolved ==
    [feed \in UpstreamFeeds, mode \in DOMAIN MODES \cup ObjectPrototypeNames, t \in Instants |->
        [threw |-> getDeparturesThrows(feed, mode, t),
         value |-> getDepartures(feed, mode, t)]]

NoResponse == [status |-> 0, departures |-> <<>>, fetchedAt |-> 0, snap |-> NoData, err |-> ""]
\* calledAt is `now` of the request's call of fetchGTFSRT (line 135), 0 before it
NewReq == [pc |-> "idle", mode |-> "", promise |-> NoPromise, value |-> NoData,
            joined |-> NoPromise, calledAt |-> 0, res |-> NoResponse]

\* A continuation is queued: some handler awaits a settled promise or a
\* returned value. The event loop runs these before any other task.
CanResume(r) ==
    \/ reqs[r].pc = "returned"
    \/ reqs[r].pc = "awaiting" /\ Settled(reqs[r].promise)
MicrotaskPending == \E r \in Reqs : CanResume(r)

\* the query values of ?mode=: absent, a configured mode, an unknown name
QueryModes == {"", "albion", "bogus"}
\* and with an unknown name that Object.prototype defines
InheritedQueryModes == {"", "bogus", "constructor"}
\* the query values of the requests that call fetchGTFSRT
LiveQueryModes == {"", "albion"}

\* the amounts by which the clock is seen to advance from one read to the next, in ms
Steps == {7500}
\* and between two reads of one run of a handler, where it may also stand still
Delays == {0} \cup Steps

\* Date.now() moves on between two steps of the program, also while a
\* continuation is queued: every read of the clock is a read of its own.
Tick(d) ==
    /\ ticks < MaxTicks
    /\ now' = now + d
    /\ ticks' = ticks + 1
    /\ UNCHANGED <<cache, fetches, reqs, call, ret>>

\* GET /api/departures?mode=q arrives: the handler runs up to its first await.
Request(q) ==
    /\ ~MicrotaskPending
    /\ Len(reqs) < MaxReqs
    /\ LET mode == IF q = "" THEN "albion" ELSE q IN
       IF ~hasConfig(MODES, mode)
       THEN /\ reqs' = Append(reqs,
                   [NewReq EXCEPT !.pc = "done", !.mode = mode,
                                   !.res = [NoResponse EXCEPT !.status = 400]])
            /\ UNCHANGED <<cache, fetches>>
       ELSE LET decision == FetchDecision(cache, now)
                f == Len(fetches) + 1
            IN  CASE decision = "cached" ->
                       /\ reqs' = Append(reqs,
                              [NewReq EXCEPT !.pc = "returned", !.mode = mode, !.calledAt = now,
                                              !.value = cache.data,
                                              !.joined = cache.inflight])
                       /\ UNCHANGED <<cache, fetches>>
                  [] decision = "join" ->
                       /\ reqs' = Append(reqs,
                              [NewReq EXCEPT !.pc = "awaiting", !.mode = mode, !.calledAt = now,
                                              !.promise = cache.inflight,
                                              !.joined = cache.inflight])
                       /\ UNCHANGED <<cache, fetches>>
                  [] OTHER ->
                       /\ Len(fetches) < MaxFetches
                       /\ fetches' = Append(fetches,
                              [state |-> "request", startedAt |-> now, settledAt |-> 0,
                               err |-> "", feed |-> <<>>,
                               before |-> [data |-> cache.data,
                                           timestamp |-> cache.timestamp]])
                       /\ cache' = OnStart(cache, f)
                       /\ reqs' = Append(reqs,
                              [NewReq EXCEPT !.pc = "awaiting", !.mode = mode, !.calledAt = now,
                                              !.promise = f, !.joined = f])
    /\ UNCHANGED <<now, ticks, call, ret>>

\* The upstream answers fetch f: a network error, a status that is not ok, or
\* an ok response whose body is then read.
FetchResponds(f, outcome) ==
    /\ ~MicrotaskPending
    /\ f \in 1..Len(fetches)
    /\ fetches[f].state = "request"
    /\ IF outcome = "ok"
       THEN /\ fetches' = [fetches EXCEPT ![f].state = "body"]
            /\ UNCHANGED cache
       ELSE /\ fetches' = [fetches EXCEPT ![f].state = "rejected", ![f].err = outcome,
                                          ![f].settledAt = now]
            /\ cache' = OnFailure(cache)
    /\ UNCHANGED <<now, ticks, reqs, call, ret>>

\* response.arrayBuffer() settles for fetch f and the payload is decoded.
FetchBody(f, outcome, feed) ==
    /\ ~MicrotaskPending
    /\ f \in 1..Len(fetches)
    /\ fetches[f].state = "body"
    /\ IF outcome = "ok"
       THEN /\ fetches' = [fetches EXCEPT ![f].state = "fulfilled", ![f].feed = feed,
                                          ![f].settledAt = now]
            /\ cache' = OnSuccess(cache, f, now)
       ELSE /\ fetches' = [fetches EXCEPT ![f].state = "rejected", ![f].err = outcome,
                                          ![f].settledAt = now]
            /\ cache' = OnFailure(cache)
    /\ UNCHANGED <<now, ticks, reqs, call, ret>>

\* The handler of request r resumes after await fetchGTFSRT() and answers.
\* getDepartures reads the clock (line 176) and res.json reads it again for
\* fetchedAt (line 267), d ms later.
Respond(r, d) ==
    /\ r \in Reqs
    /\ CanResume(r)
    /\ d > 0 => ticks < MaxTicks
    /\ LET snap == IF reqs[r].pc = "returned" THEN reqs[r].value ELSE reqs[r].promise IN
       IF snap = NoData
       THEN \* feed.entity of null throws a TypeError inside the try block
            /\ d = 0
            /\ reqs' = [reqs EXCEPT ![r].pc = "done",
                           ![r].res = [NoResponse EXCEPT !.status = 502, !.err = "type"]]
       ELSE IF fetches[snap].state = "rejected"
       THEN /\ d = 0
            /\ reqs' = [reqs EXCEPT ![r].pc = "done",
                           ![r].res = [NoResponse EXCEPT !.status = 502,
                                                         !.err = fetches[snap].err]]
       ELSE IF Resolved[fetches[snap].feed, reqs[r].mode, now].threw
       THEN /\ d = 0
            /\ reqs' = [reqs EXCEPT ![r].pc = "done",
                           ![r].res = [NoResponse EXCEPT !.status = 502, !.err = "type"]]
       ELSE reqs' = [reqs EXCEPT ![r].pc = "done",
                        ![r].res = [status |-> 200,
                                    departures |->
                                        Resolved[fetches[snap].feed, reqs[r].mode, now].value,
                                    fetchedAt |-> now + d,
                                    snap |-> snap,
                                    err |-> ""]]
    /\ now' = now + d
    /\ ticks' = IF d > 0 THEN ticks + 1 ELSE ticks
    /\ UNCHANGED <<cache, fetches, call, ret>>

---------------------------------------------------------------------------
(* One call of the resolver on given arguments *)

GetDepartures ==
    /\ call.variant = "server"
    /\ ~ret.done
    /\ ret' = IF getDeparturesThrows(call.feed, call.mode, call.nowMs)
              THEN [done |-> TRUE, threw |-> TRUE, value |-> <<>>]
              ELSE [done |-> TRUE, threw |-> FALSE,
                    value |-> getDepartures(call.feed, call.mode, call.nowMs)]
    /\ UNCHANGED <<now, ticks, cache, fetches, reqs, call>>

\* One call of lineName on given arguments
LineName ==
    /\ call.variant = "lineName"
    /\ ~ret.done
    /\ ret' = [done |-> TRUE, threw |-> FALSE,
               value |-> lineName(call.routeId, call.useDestination)]
    /\ UNCHANGED <<now, ticks, cache, fetches, reqs, call>>

GetDeparturesSC ==
    /\ call.variant = "stopconfig"
    /\ ~ret.done
    /\ ret' = IF getDeparturesSCThrows(call.feed, call.mode, call.nowMs, call.tzOffsetSec)
              THEN [done |-> TRUE, threw |-> TRUE, value |-> <<>>]
              ELSE [done |-> TRUE, threw |-> FALSE,
                    value |-> getDeparturesSC(call.feed, call.mode, call.nowMs,
                                              call.tzOffsetSec)]
    /\ UNCHANGED <<now, ticks, cache, fetches, reqs, call>>

---------------------------------------------------------------------------
(* Specifications *)

InitServer ==
    /\ now = 120000
    /\ ticks = 0
    /\ cache = InitialCache
    /\ fetches = <<>>
    /\ reqs = <<>>

\* The server: requests, upstream answers and the clock, in any order.
Init ==
    /\ InitServer
    /\ call = NoCall
    /\ ret = NoReturn

Next ==
    \/ \E d \in Steps : Tick(d)
    \/ \E q \in QueryModes : Request(q)
    \/ \E f \in 1..MaxFetches, outcome \in {"ok"} \cup ResponseFailures : FetchResponds(f, outcome)
    \/ \E f \in 1..MaxFetches, outcome \in {"ok"} \cup BodyFailures, feed \in UpstreamFeeds :
           FetchBody(f, outcome, feed)
    \/ \E r \in 1..MaxReqs, d \in Delays : Respond(r, d)

Spec == Init /\ [][Next]_vars

\* The server when the upstream answers every request and reads every body
\* to its end or to an error, and the event loop runs every continuation.
Fairness ==
    /\ WF_vars(\E f \in 1..MaxFetches, outcome \in {"ok"} \cup ResponseFailures :
                   FetchResponds(f, outcome))
    /\ WF_vars(\E f \in 1..MaxFetches, outcome \in {"ok"} \cup BodyFailures,
                   feed \in UpstreamFeeds : FetchBody(f, outcome, feed))
    /\ WF_vars(\E r \in 1..MaxReqs, d \in Delays : Respond(r, d))

\* Its requests are those that reach the cache: a request refused with 400
\* is answered in the step that receives it and awaits nothing.
NextLive ==
    \/ \E d \in Steps : Tick(d)
    \/ \E q \in LiveQueryModes : Request(q)
    \/ \E f \in 1..MaxFetches, outcome \in {"ok"} \cup ResponseFailures : FetchResponds(f, outcome)
    \/ \E f \in 1..MaxFetches, outcome \in {"ok"} \cup BodyFailures, feed \in UpstreamFeeds :
           FetchBody(f, outcome, feed)
    \/ \E r \in 1..MaxReqs, d \in Delays : Respond(r, d)

SpecLive == Init /\ [][NextLive]_vars /\ Fairness

\* The server when requests may also name a property of Object.prototype.
NextModes ==
    \/ \E d \in Steps : Tick(d)
    \/ \E q \in InheritedQueryModes : Request(q)
    \/ \E f \in 1..MaxFetches, outcome \in {"ok"} \cup ResponseFailures : FetchResponds(f, outcome)
    \/ \E f \in 1..MaxFetches, outcome \in {"ok"} \cup BodyFailures, feed \in UpstreamFeeds :
           FetchBody(f, outcome, feed)
    \/ \E r \in 1..MaxReqs, d \in Delays : Respond(r, d)

SpecModes == Init /\ [][NextModes]_vars

\* The resolver alone: one call of getDepartures on each argument list.
InitResolve ==
    /\ InitServer
    /\ \E fa \in FeedsAt :
           \/ \E m \in ServerModes : call = Call("server", fa[1], m, fa[2], 0)
           \/ \E m \in StopConfigModes : call = Call("stopconfig", fa[1], m, fa[2], fa[3])
    /\ ret = NoReturn

NextResolve == GetDepartures \/ GetDeparturesSC

SpecResolve == InitResolve /\ [][NextResolve]_vars

\* lineName alone: one call on each route id and flag.
InitLine ==
    /\ InitServer
    /\ \E routeId \in LineRouteIds, useDestination \in BOOLEAN :
           call = LineCall(routeId, useDestination)
    /\ ret = NoReturn

NextLine == LineName

SpecLine == InitLine /\ [][NextLine]_vars

---------------------------------------------------------------------------
(* Properties of the resolver, stated for SpecResolve *)

\* a call of the server's getDepartures has returned
ServerReturned == ret.done /\ ~ret.threw /\ call.variant = "server"

\* a <= b on JS numbers that are not NaN
TsLeq(a, b) == b.kind = "inf" \/ (a.kind = "num" /\ b.kind = "num" /\ a.v <= b.v)

\* the stop time update at position i is the first one whose stopId or
\* effective stop id (assignedStopId if present, else stopId) is a target stop
FirstMatchAt(stopIds, stus, i) ==
    LET Hit(s) == s.stopId \in stopIds
                    \/ (IF s.assignedStopId # "" THEN s.assignedStopId ELSE s.stopId) \in stopIds
    IN  Hit(stus[i]) /\ \A j \in 1..(i - 1) : ~Hit(stus[j])

\* the time of the departure event of a stop time update, or of its arrival
\* event when it has no departure event
EventTime(stu) == IF stu.departure.present THEN stu.departure.time ELSE stu.arrival.time

\* C3: for every feed and every mode, the list returned by getDepartures is
\* in ascending order of departure epoch and has at most 5 entries.
C3_SortedAndCapped ==
    ServerReturned =>
        /\ Len(ret.value) <= 5
        /\ \A k \in 1..(Len(ret.value) - 1) :
               TsLeq(ret.value[k].departureTs, ret.value[k + 1].departureTs)

\* more than 5 departures were accepted, out of order, and 5 were returned
C3_Witness ==
    /\ ServerReturned
    /\ call.mode \in DOMAIN MODES
    /\ Len(ret.value) = 5
    /\ LET acc == accepted(call.feed, call.mode, call.nowMs) IN
         /\ Len(acc) > 5
         /\ \E k \in 1..(Len(acc) - 1) : ~TsLeq(acc[k].departureTs, acc[k + 1].departureTs)

\* C4: no two entries of the output come from trip updates that share a
\* non-empty tripId, also when a trip is several entities of the feed.
C4_NoDuplicateTrip ==
    ServerReturned =>
        \A i, j \in 1..Len(ret.value) :
            i # j =>
                LET ti == call.feed[ret.value[i].entity].trip.tripId
                    tj == call.feed[ret.value[j].entity].trip.tripId
                IN  Falsy(ti) \/ ti # tj

\* a trip id carried by two entities, each a departure on its own, the first
\* of them returned
C4_Witness ==
    /\ ServerReturned
    /\ call.mode \in DOMAIN MODES
    /\ \E a, b \in 1..Len(call.feed) :
         /\ a < b
         /\ ~Falsy(call.feed[a].trip.tripId)
         /\ call.feed[a].trip.tripId = call.feed[b].trip.tripId
         /\ getDepartures(<<call.feed[b]>>, call.mode, call.nowMs) # <<>>
         /\ \E k \in 1..Len(ret.value) : ret.value[k].entity = a

\* C7: in every mode with requiredStopIds, of the server and of the
\* STOP_CONFIG variant, every returned departure belongs to a trip that has a
\* stop time update strictly after the matched one whose raw stopId is in
\* requiredStopIds.
C7_RequiredDownstream ==
    /\ (ServerReturned /\ call.mode \in DOMAIN MODES /\ MODES[call.mode].hasRequired) =>
          \A k \in 1..Len(ret.value) :
              LET stus == call.feed[ret.value[k].entity].stus
                  idx == targetIdx(MODES[call.mode], stus)
              IN  \E j \in (idx + 1)..Len(stus) :
                      stus[j].stopId \in MODES[call.mode].requiredStopIds
    /\ (ret.done /\ ~ret.threw /\ call.variant = "stopconfig" /\ call.mode \in DOMAIN STOP_CONFIG
            /\ STOP_CONFIG[call.mode].hasRequired) =>
          \A k \in 1..Len(ret.value) :
              LET stus == call.feed[ret.value[k].entity].stus
                  idx == targetIdxSC(STOP_CONFIG[call.mode], stus)
              IN  \E j \in (idx + 1)..Len(stus) :
                      stus[j].stopId \in STOP_CONFIG[call.mode].requiredStopIds

\* the part of C7 that concerns src/server.js
C7_ServerRequiredDownstream ==
    (ServerReturned /\ call.mode \in DOMAIN MODES /\ MODES[call.mode].hasRequired) =>
        \A k \in 1..Len(ret.value) :
            LET stus == call.feed[ret.value[k].entity].stus IN
            \E i \in 1..Len(stus) :
                /\ FirstMatchAt(MODES[call.mode].stopIds, stus, i)
                /\ \E j \in (i + 1)..Len(stus) :
                       stus[j].stopId \in MODES[call.mode].requiredStopIds

\* C8: a trip whose first matching stop time update has assignedStopId X in
\* the mode's stopIds and stopId Y outside them is matched at that update, and
\* its departure carries the platform of X (none if X has no entry), not of Y.
C8_AssignedStopPlatform ==
    (ServerReturned /\ call.mode \in DOMAIN MODES) =>
        LET config == MODES[call.mode] IN
        \A e \in 1..Len(call.feed) :
            \A i \in 1..Len(call.feed[e].stus) :
                LET stus == call.feed[e].stus
                    X == stus[i].assignedStopId
                IN  ( /\ call.feed[e].hasTu
                      /\ FirstMatchAt(config.stopIds, stus, i)
                      /\ X \in config.stopIds
                      /\ stus[i].stopId \notin config.stopIds )
                    =>
                    /\ \A k \in 1..Len(ret.value) :
                           ret.value[k].entity = e =>
                               /\ ret.value[k].departureTs = EventTime(stus[i])
                               /\ ret.value[k].platform =
                                      (IF X \in DOMAIN PLATFORM_NAMES
                                       THEN PLATFORM_NAMES[X] ELSE "")
                    /\ ( /\ Len(call.feed) = 1
                         /\ call.feed[e].trip.directionId = NoDirection
                         /\ stus[i].departure.present
                         /\ stus[i].departure.time.kind = "num"
                         /\ stus[i].departure.time.v * 1000 >= call.nowMs - 60000
                         /\ (config.hasRequired =>
                                \E j \in (i + 1)..Len(stus) :
                                    stus[j].stopId \in config.requiredStopIds) )
                       => Len(ret.value) = 1

\* a trip reassigned from a Roma Street platform to an Albion platform is
\* returned with the Albion platform's label
C8_Witness ==
    /\ ServerReturned
    /\ call.mode = "albion"
    /\ Len(call.feed) = 1
    /\ Len(ret.value) = 1
    /\ \E i \in 1..Len(call.feed[1].stus) :
         LET stu == call.feed[1].stus[i] IN
         /\ FirstMatchAt(MODES["albion"].stopIds, call.feed[1].stus, i)
         /\ stu.assignedStopId \in MODES["albion"].stopIds
         /\ stu.stopId \notin MODES["albion"].stopIds
         /\ stu.stopId \in DOMAIN PLATFORM_NAMES
         /\ ret.value[1].platform = PLATFORM_NAMES[stu.assignedStopId]
         /\ ret.value[1].platform # PLATFORM_NAMES[stu.stopId]

\* the first entity of the feed passes every filter that precedes the time test
FirstEntityReachesTimeTest ==
    /\ call.mode \in DOMAIN MODES
    /\ Len(call.feed) \in 1..5
    /\ call.feed[1].hasTu
    /\ ~DirectionSkip(MODES[call.mode], call.feed[1].trip)
    /\ \E i \in 1..Len(call.feed[1].stus) :
         /\ FirstMatchAt(MODES[call.mode].stopIds, call.feed[1].stus, i)
         /\ MODES[call.mode].hasRequired =>
                \E j \in (i + 1)..Len(call.feed[1].stus) :
                    call.feed[1].stus[j].stopId \in MODES[call.mode].requiredStopIds
         /\ LET stu == call.feed[1].stus[i] IN
                (stu.departure.present \/ stu.arrival.present)
                    /\ EventTime(stu).kind = "num"

\* the time the first entity departs its matched stop
FirstEntityTime ==
    LET stus == call.feed[1].stus
        i == CHOOSE i \in 1..Len(stus) : FirstMatchAt(MODES[call.mode].stopIds, stus, i)
    IN  EventTime(stus[i]).v

\* C9: every returned departure is at or after the resolution instant minus
\* 60 seconds; a departure exactly 60 seconds in the past is kept and one
\* more than 60 seconds in the past is dropped.
C9_GraceWindow ==
    ServerReturned =>
        /\ \A k \in 1..Len(ret.value) :
               \/ ret.value[k].departureTs.kind = "inf"
               \/ /\ ret.value[k].departureTs.kind = "num"
                  /\ ret.value[k].departureTs.v * 1000 >= call.nowMs - 60000
        /\ FirstEntityReachesTimeTest =>
               /\ FirstEntityTime * 1000 = call.nowMs - 60000 =>
                      \E k \in 1..Len(ret.value) : ret.value[k].entity = 1
               /\ FirstEntityTime * 1000 < call.nowMs - 60000 =>
                      \A k \in 1..Len(ret.value) : ret.value[k].entity # 1

\* a departure exactly 60 seconds in the past was returned
C9_Witness ==
    /\ ServerReturned
    /\ FirstEntityReachesTimeTest
    /\ FirstEntityTime * 1000 = call.nowMs - 60000
    /\ \E k \in 1..Len(ret.value) :
           ret.value[k].entity = 1 /\ ret.value[k].departureTs = NumOf(FirstEntityTime)

---------------------------------------------------------------------------
(* Properties of the feed cache, stated for Spec *)

Fetches == 1..Len(fetches)

\* C1: at most one upstream fetch is outstanding at any instant; while the
\* first fetch is outstanding every get() call so far awaits it and no other
\* fetch has been started.
C1_SingleFlight ==
    /\ Cardinality({f \in Fetches : Outstanding(f)}) <= 1
    /\ (Len(fetches) >= 1 /\ Outstanding(1)) =>
           /\ Len(fetches) = 1
           /\ \A r \in Reqs : hasConfig(MODES, reqs[r].mode) => reqs[r].promise = 1

\* two get() calls await the one fetch started on the empty cache
C1_Witness ==
    /\ Len(fetches) = 1
    /\ Outstanding(1)
    /\ Cardinality({r \in Reqs : reqs[r].pc = "awaiting" /\ reqs[r].promise = 1}) >= 2

\* C2: a get() caller that arrives while a refresh is outstanding awaits that
\* refresh and receives its outcome: its snapshot if it succeeds, its failure
\* if it fails; once the refresh has settled and the queued continuations have
\* run, no such caller is still waiting.
C2_SameOutcome ==
    \A r \in Reqs :
        reqs[r].joined # NoPromise =>
            /\ reqs[r].pc # "returned"
            /\ reqs[r].promise = reqs[r].joined
            /\ (Settled(reqs[r].joined) /\ ~MicrotaskPending) => reqs[r].pc = "done"
            /\ reqs[r].pc = "done" =>
                   /\ fetches[reqs[r].joined].state = "fulfilled" =>
                          reqs[r].res.status = 200 /\ reqs[r].res.snap = reqs[r].joined
                   /\ fetches[reqs[r].joined].state = "rejected" =>
                          /\ reqs[r].res.status = 502
                          /\ reqs[r].res.err = fetches[reqs[r].joined].err

\* two callers of one refresh that failed have both been answered with it
C2_Witness ==
    \E r1, r2 \in Reqs :
        /\ r1 < r2
        /\ reqs[r1].joined # NoPromise
        /\ reqs[r1].joined = reqs[r2].joined
        /\ fetches[reqs[r1].joined].state = "rejected"
        /\ reqs[r1].pc = "done" /\ reqs[r2].pc = "done"
        /\ reqs[r1].res.err = reqs[r2].res.err

\* C5: the step in which an upstream fetch fails clears the pending marker and
\* leaves the cached snapshot and its timestamp as they were when the fetch
\* started.
C5_FailureKeepsSnapshot ==
    [][ \A f \in Fetches :
            (Outstanding(f) /\ fetches'[f].state = "rejected") =>
                /\ cache'.inflight = NoPromise
                /\ cache'.data = fetches[f].before.data
                /\ cache'.timestamp = fetches[f].before.timestamp
                /\ cache'.data = cache.data
                /\ cache'.timestamp = cache.timestamp ]_vars

\* a refresh of a stale snapshot has failed and the snapshot is still cached
C5_Witness ==
    \E f \in Fetches :
        /\ fetches[f].state = "rejected"
        /\ fetches[f].before.data # NoData
        /\ cache.data = fetches[f].before.data
        /\ cache.timestamp = fetches[f].before.timestamp
        /\ cache.inflight = NoPromise

\* the latest upstream fetch has failed
LastFetchFailed == Len(fetches) >= 1 /\ fetches[Len(fetches)].state = "rejected"

\* C6: when the latest upstream fetch has failed, the next get() call starts a
\* new upstream fetch and awaits it.
C6_RetryAfterFailure ==
    [][ ( /\ LastFetchFailed
          /\ Len(reqs') = Len(reqs) + 1
          /\ hasConfig(MODES, reqs'[Len(reqs')].mode) )
        =>
        /\ Len(fetches') = Len(fetches) + 1
        /\ fetches'[Len(fetches')].state = "request"
        /\ reqs'[Len(reqs')].pc = "awaiting"
        /\ reqs'[Len(reqs')].promise = Len(fetches') ]_vars

\* a get() call made after a failed refresh of a cached snapshot awaits a new fetch
C6_Witness ==
    \E r \in Reqs :
        /\ reqs[r].promise >= 2
        /\ reqs[r].joined = reqs[r].promise
        /\ fetches[reqs[r].promise - 1].state = "rejected"
        /\ fetches[reqs[r].promise].before.data # NoData
        /\ fetches[reqs[r].promise].startedAt - fetches[reqs[r].promise - 1].settledAt < 15000

\* C10 as stated: no two upstream fetches are started less than TTL apart.
C10_OncePerTtl ==
    \A f, g \in Fetches :
        f < g => fetches[g].startedAt - fetches[f].startedAt >= 15000

\* C10 amended: an upstream fetch that follows a fetch that succeeded is
\* started at least TTL after that fetch was started and after it completed.
C10_OncePerTtlAfterSuccess ==
    \A f, g \in Fetches :
        (f < g /\ fetches[f].state = "fulfilled") =>
            /\ fetches[g].startedAt - fetches[f].startedAt >= 15000
            /\ fetches[g].startedAt - fetches[f].settledAt >= 15000

\* a second fetch was started after a first one that succeeded
C10_Witness ==
    \E f, g \in Fetches : f < g /\ fetches[f].state = "fulfilled"

---------------------------------------------------------------------------
(* Departure times that cannot be read, stated for SpecResolve *)

\* the first entity passes every filter that precedes the time test and its
\* time at the matched stop is missing, null, not a number or not finite
FirstEntityHasBadTime ==
    /\ call.mode \in DOMAIN MODES
    /\ Len(call.feed) \in 1..5
    /\ call.feed[1].hasTu
    /\ ~DirectionSkip(MODES[call.mode], call.feed[1].trip)
    /\ \E i \in 1..Len(call.feed[1].stus) :
         /\ FirstMatchAt(MODES[call.mode].stopIds, call.feed[1].stus, i)
         /\ MODES[call.mode].hasRequired =>
                \E j \in (i + 1)..Len(call.feed[1].stus) :
                    call.feed[1].stus[j].stopId \in MODES[call.mode].requiredStopIds
         /\ LET stu == call.feed[1].stus[i] IN
                \/ ~stu.departure.present /\ ~stu.arrival.present
                \/ EventTime(stu).kind \in {"nan", "null", "inf"}

\* the departures with the entity indices moved down by one
Renumbered(results) ==
    [k \in 1..Len(results) |-> [results[k] EXCEPT !.entity = @ - 1]]

\* C11: a trip whose time at the stop is missing, null, non-numeric or
\* non-finite is skipped without raising: the call returns, the trip is not
\* in the output, and the other trips are processed as if it were absent.
C11_BadTimeSkipped ==
    (ret.done /\ call.variant = "server" /\ FirstEntityHasBadTime) =>
        /\ ~ret.threw
        /\ \A k \in 1..Len(ret.value) : ret.value[k].entity # 1
        /\ Renumbered(ret.value) = getDepartures(Tail(call.feed), call.mode, call.nowMs)

---------------------------------------------------------------------------
(* Unknown modes, stated for SpecModes *)

\* C12: a request naming a mode that is not configured is answered with
\* status 400, never 200 and never a server error, and getDepartures called
\* with such a name returns no departures without throwing.
C12_UnknownMode400 ==
    \A r \in Reqs :
        reqs[r].mode \notin DOMAIN MODES =>
            /\ reqs[r].pc = "done"
            /\ reqs[r].res.status = 400
            /\ \A feed \in UpstreamFeeds :
                   /\ ~getDeparturesThrows(feed, reqs[r].mode, now)
                   /\ getDepartures(feed, reqs[r].mode, now) = <<>>

---------------------------------------------------------------------------
(* lineName against its description, stated for SpecLine *)

\* the position of the first hyphen of s, or one past its end
HyphenAt(s) ==
    IF \E i \in 1..Len(s) : s[i] = "-"
    THEN CHOOSE i \in 1..Len(s) : s[i] = "-" /\ \A j \in 1..(i - 1) : s[j] # "-"
    ELSE Len(s) + 1

\* the upper-cased text before the first hyphen
CodeOf(routeId) ==
    toUpperCase(SubSeq(routeId, 1, HyphenAt(routeId) - 1))

\* the line name as described: "Train" for an empty id; the destination
\* characters [2,4) of the code when asked for, present and known; else the
\* origin characters [0,2) when known; else the id itself
DescribedLineName(routeId, useDestination) ==
    LET code == CodeOf(routeId) IN
    IF Len(routeId) = 0 THEN Train
    ELSE IF useDestination /\ Len(code) >= 4 /\ <<code[3], code[4]>> \in DOMAIN LINE_NAMES
         THEN LINE_NAMES[<<code[3], code[4]>>]
    ELSE IF Len(code) >= 2 /\ <<code[1], code[2]>> \in DOMAIN LINE_NAMES
         THEN LINE_NAMES[<<code[1], code[2]>>]
    ELSE routeId

\* C13: lineName(routeId, useDestination) is the described line name;
\* "RPSP-4484" is Springfield by destination and Redcliffe by origin, and
\* "ZZZZ-1" is returned as it is.
C13_LineName ==
    (ret.done /\ call.variant = "lineName") =>
        /\ ret.value = DescribedLineName(call.routeId, call.useDestination)
        /\ call.routeId = RPSP =>
               ret.value = IF call.useDestination
                           THEN <<"S", "p", "r", "i", "n", "g", "f", "i", "e", "l", "d">>
                           ELSE <<"R", "e", "d", "c", "l", "i", "f", "f", "e">>
        /\ call.routeId = <<"Z", "Z", "Z", "Z", "-", "1">> => ret.value = call.routeId

\* a route id in lower case is named by its destination characters
C13_Witness ==
    /\ ret.done
    /\ call.variant = "lineName"
    /\ call.useDestination
    /\ call.routeId = <<"r", "p", "s", "p", "-", "1">>
    /\ ret.value = <<"S", "p", "r", "i", "n", "g", "f", "i", "e", "l", "d">>

---------------------------------------------------------------------------
(* The direction filter, stated for SpecResolve *)

\* the feed with direction d written on the trips that carry direction c
Redirected(feed, c, d) ==
    [i \in 1..Len(feed) |->
        IF feed[i].hasTu /\ feed[i].trip.directionId = c
        THEN [feed[i] EXCEPT !.trip.directionId = d]
        ELSE feed[i]]

\* the feed with the direction field removed from every trip
Undirected(feed) ==
    [i \in 1..Len(feed) |->
        IF feed[i].hasTu THEN [feed[i] EXCEPT !.trip.directionId = NoDirection]
        ELSE feed[i]]

\* C14: in a mode with directionId 0 no returned trip has a known direction
\* other than 0, and a trip without a direction field fares as one with
\* direction 0; in a mode without directionId the directions of the trips
\* change nothing.
C14_DirectionFilter ==
    (ServerReturned /\ call.mode \in DOMAIN MODES) =>
        IF MODES[call.mode].directionId = 0
        THEN /\ \A k \in 1..Len(ret.value) :
                    call.feed[ret.value[k].entity].trip.directionId \in {NoDirection, 0}
             /\ ret.value = getDepartures(Redirected(call.feed, NoDirection, 0),
                                          call.mode, call.nowMs)
        ELSE ret.value = getDepartures(Undirected(call.feed), call.mode, call.nowMs)

\* in albion mode a trip without direction is returned and, on another call,
\* the same trip with direction 1 is not
C14_Witness ==
    /\ ServerReturned
    /\ call.mode = "albion"
    /\ Len(call.feed) = 2
    /\ call.feed[1].trip.directionId = NoDirection
    /\ \E k \in 1..Len(ret.value) : ret.value[k].entity = 1
    /\ getDepartures(Redirected(call.feed, NoDirection, 1), call.mode, call.nowMs)
           = getDepartures(<<NoTripUpdate, call.feed[2]>>, call.mode, call.nowMs)

---------------------------------------------------------------------------
(* Fresh hits and the age of what is delivered, stated for Spec *)

\* C15: a get() call made while a snapshot exists and now - fetchedAt < TTL
\* returns that snapshot, starts no upstream fetch and leaves the snapshot,
\* its timestamp and the pending marker as they were.
C15_FreshHitFrame ==
    [][ ( /\ Len(reqs') = Len(reqs) + 1
          /\ hasConfig(MODES, reqs'[Len(reqs')].mode)
          /\ cache.data # NoData
          /\ now - cache.timestamp < 15000 )
        =>
        /\ reqs'[Len(reqs')].pc = "returned"
        /\ reqs'[Len(reqs')].value = cache.data
        /\ fetches' = fetches
        /\ cache' = cache ]_vars

\* a get() call was answered from the snapshot fetched 7500 ms earlier
C15_Witness ==
    \E r \in Reqs :
        /\ reqs[r].pc = "returned"
        /\ reqs[r].value # NoData
        /\ reqs[r].value = cache.data
        /\ now - cache.timestamp = 7500
        /\ \A f \in Fetches : Settled(f)

---------------------------------------------------------------------------
(* Termination of fetches, stated for SpecLive *)

\* every fetch started so far is settled, the pending marker is clear and
\* every get() call made so far is answered
Quiescent ==
    /\ \A f \in Fetches : Settled(f)
    /\ cache.inflight = NoPromise
    /\ \A r \in Reqs : reqs[r].pc = "done"

\* C16: every upstream fetch that is started is eventually settled, the
\* pending marker is eventually cleared and every get() call that awaits a
\* fetch is eventually answered: whatever has been started, the server comes
\* to rest again (a settled fetch and an answered call stay so).
C16_FetchesSettle == []<>Quiescent

\* a fetch awaited by two get() calls has failed, both calls are answered and
\* the pending marker is clear
C16_Witness ==
    \E r, s \in Reqs :
        /\ r < s
        /\ reqs[r].promise # NoPromise
        /\ reqs[r].promise = reqs[s].promise
        /\ fetches[reqs[r].promise].state = "rejected"
        /\ reqs[r].pc = "done"
        /\ reqs[s].pc = "done"
        /\ reqs[s].res.status = 502
        /\ cache.inflight = NoPromise

\* C17: a snapshot handed to a caller of get() was fetched less than 15000 ms
\* before the instant the caller receives it, whether the caller found it
\* fresh in the cache, started its fetch or joined its fetch. The handler
\* writes the instant it resumes as fetchedAt of its response.
C17_DeliveredWithinTtl ==
    \A r \in Reqs :
        /\ reqs[r].pc = "returned" =>
               now - fetches[reqs[r].value].settledAt < 15000
        /\ reqs[r].res.status = 200 =>
               /\ fetches[reqs[r].res.snap].state = "fulfilled"
               /\ reqs[r].res.fetchedAt - fetches[reqs[r].res.snap].settledAt < 15000
               /\ reqs[r].res.fetchedAt >= fetches[reqs[r].res.snap].settledAt

\* C17 as the code has it: a snapshot handed to a caller of get() was fetched
\* less than 15000 ms before the instant that call read the clock for its
\* freshness test (a caller that started or joined the fetch gets a snapshot
\* fetched after that instant). How old the snapshot is when the caller
\* receives it is not bounded by the TTL.
C17_FreshWhenTested ==
    \A r \in Reqs :
        /\ reqs[r].pc = "returned" =>
               /\ reqs[r].calledAt - fetches[reqs[r].value].settledAt < 15000
               /\ reqs[r].calledAt >= fetches[reqs[r].value].settledAt
        /\ reqs[r].res.status = 200 =>
               /\ fetches[reqs[r].res.snap].state = "fulfilled"
               /\ reqs[r].calledAt - fetches[reqs[r].res.snap].settledAt < 15000
               /\ reqs[r].promise # NoPromise =>
                      fetches[reqs[r].res.snap].settledAt >= reqs[r].calledAt

\* one snapshot was delivered to the call that started its fetch and to a
\* call that joined the fetch, and a third call found it in the cache at the
\* age of 7500 ms and was answered from it at the age of 15000 ms
C17_Witness ==
    \E r, s, t \in Reqs :
        /\ r < s
        /\ reqs[r].promise # NoPromise
        /\ reqs[s].promise = reqs[r].promise
        /\ reqs[t].value = reqs[r].promise
        /\ reqs[r].res.status = 200
        /\ reqs[s].res.status = 200
        /\ reqs[t].res.status = 200
        /\ reqs[t].calledAt - fetches[reqs[t].value].settledAt = 7500
        /\ reqs[t].res.fetchedAt - fetches[reqs[t].value].settledAt = 15000

\* C18: fetchedAt of a successful response is the instant the snapshot the
\* response was built from was fetched, also when the snapshot came from the
\* cache.
C18_FetchedAtOfSnapshot ==
    \A r \in Reqs :
        reqs[r].res.status = 200 =>
            reqs[r].res.fetchedAt = fetches[reqs[r].res.snap].settledAt

---------------------------------------------------------------------------
(* Deduplication and truncation, stated for SpecResolve *)

\* the call of the same variant on entity a of the feed alone
AloneThrows(a) ==
    IF call.variant = "server"
    THEN getDeparturesThrows(<<call.feed[a]>>, call.mode, call.nowMs)
    ELSE getDeparturesSCThrows(<<call.feed[a]>>, call.mode, call.nowMs, call.tzOffsetSec)
Alone(a) ==
    IF call.variant = "server"
    THEN getDepartures(<<call.feed[a]>>, call.mode, call.nowMs)
    ELSE getDeparturesSC(<<call.feed[a]>>, call.mode, call.nowMs, call.tzOffsetSec)

\* entity a passes every filter but deduplication
Passes(a) == call.feed[a].hasTu /\ ~AloneThrows(a) /\ Alone(a) # <<>>

\* the call returned, for a configured mode, a feed short enough not to be cut
ReturnedUncut ==
    /\ ret.done
    /\ ~ret.threw
    /\ \/ call.variant = "server" /\ call.mode \in DOMAIN MODES /\ Len(call.feed) <= 5
       \/ call.variant = "stopconfig" /\ call.mode \in DOMAIN STOP_CONFIG
              /\ Len(call.feed) <= 3

\* C19: in each variant a trip update without tripId is never dropped as a
\* duplicate, and one with a tripId is dropped as a duplicate only when an
\* earlier trip update with that tripId was accepted: a trip update that
\* passes the other filters and follows no passing one with its tripId is
\* in the output.
C19_DedupByTripIdOnly ==
    ReturnedUncut =>
        \A a \in 1..Len(call.feed) :
            ( /\ Passes(a)
              /\ \/ Falsy(call.feed[a].trip.tripId)
                 \/ \A b \in 1..(a - 1) :
                        ~(Passes(b) /\ call.feed[b].trip.tripId = call.feed[a].trip.tripId) )
            => \E k \in 1..Len(ret.value) : ret.value[k].entity = a

\* C19 for the server alone
C19_ServerDedupByTripIdOnly ==
    (ReturnedUncut /\ call.variant = "server") =>
        \A a \in 1..Len(call.feed) :
            ( /\ Passes(a)
              /\ \/ Falsy(call.feed[a].trip.tripId)
                 \/ \A b \in 1..(a - 1) :
                        ~(Passes(b) /\ call.feed[b].trip.tripId = call.feed[a].trip.tripId) )
            => \E k \in 1..Len(ret.value) : ret.value[k].entity = a

\* x stands before y in the stable ascending order of the accepted
\* departures: it departs earlier, or at the same instant and was met
\* earlier in the feed
StandsBefore(x, y) ==
    \/ x.departureTs.kind = "num" /\ y.departureTs.kind = "inf"
    \/ x.departureTs.kind = "num" /\ y.departureTs.kind = "num"
           /\ x.departureTs.v < y.departureTs.v
    \/ x.departureTs.kind = y.departureTs.kind
           /\ (x.departureTs.kind = "num" => x.departureTs.v = y.departureTs.v)
           /\ x.entity < y.entity

\* C20: the output is the first min(5, n) of the n accepted departures in
\* stable ascending order of departure time: it is cut after sorting, and
\* departures of equal time keep the order of the feed.
C20_CutAfterSort ==
    (ServerReturned /\ call.mode \in DOMAIN MODES) =>
        LET all == accepted(call.feed, call.mode, call.nowMs) IN
        /\ Len(ret.value) = IF Len(all) < 5 THEN Len(all) ELSE 5
        /\ \A k \in 1..Len(ret.value) : \E j \in 1..Len(all) : all[j] = ret.value[k]
        /\ \A k, l \in 1..Len(ret.value) :
               k < l => StandsBefore(ret.value[k], ret.value[l])
        /\ \A j \in 1..Len(all) :
               (\A k \in 1..Len(ret.value) : ret.value[k] # all[j]) =>
                   \A k \in 1..Len(ret.value) : StandsBefore(ret.value[k], all[j])

\* six departures were accepted, the sixth of the feed is the earliest and is
\* returned first, and two returned departures of equal time keep feed order
C20_Witness ==
    /\ ServerReturned
    /\ call.mode = "albion"
    /\ Len(accepted(call.feed, call.mode, call.nowMs)) = 6
    /\ Len(ret.value) = 5
    /\ ret.value[1].entity = 6
    /\ ret.value[2].departureTs = ret.value[3].departureTs
    /\ ret.value[2].entity < ret.value[3].entity

---------------------------------------------------------------------------
(* Unknown modes and the cache, stated for SpecModes *)

\* C21: a request whose mode is not one of the configured modes is refused
\* before the cache is consulted: it is answered 400 at once, awaits nothing,
\* starts no upstream fetch and leaves the snapshot, its timestamp and the
\* pending marker as they were.
C21_UnknownModeLeavesCache ==
    [][ ( /\ Len(reqs') = Len(reqs) + 1
          /\ reqs'[Len(reqs')].mode \notin DOMAIN MODES )
        =>
        /\ reqs'[Len(reqs')].pc = "done"
        /\ reqs'[Len(reqs')].res.status = 400
        /\ reqs'[Len(reqs')].promise = NoPromise
        /\ reqs'[Len(reqs')].value = NoData
        /\ fetches' = fetches
        /\ cache' = cache ]_vars

\* C21 for the mode names that Object.prototype does not define
C21_UndefinedModeLeavesCache ==
    [][ ( /\ Len(reqs') = Len(reqs) + 1
          /\ ~hasConfig(MODES, reqs'[Len(reqs')].mode) )
        =>
        /\ reqs'[Len(reqs')].pc = "done"
        /\ reqs'[Len(reqs')].res.status = 400
        /\ reqs'[Len(reqs')].promise = NoPromise
        /\ reqs'[Len(reqs')].value = NoData
        /\ fetches' = fetches
        /\ cache' = cache ]_vars

=============================================================================
